---- MODULE Spec2Model ----
(***************************************************************************)
(* A model of the llms.txt generator: the traversal engine                 *)
(* (src/utils/advanced_traversal.py) and the generator pipeline            *)
(* (src/core/generator.py): discovery, URL validation, page processing,    *)
(* categorization and rendering.                                           *)
(*                                                                         *)
(* Strings are modelled as sequences of characters (a URL is               *)
(* <<scheme, "://", netloc>> followed by the characters of its path), so   *)
(* that Python's "pattern in s", s.lower() and sorted() are computed, not  *)
(* assumed.                                                                *)
(***************************************************************************)
EXTENDS Integers, Sequences, FiniteSets, TLC

VARIABLES
    \* ---- traversal engine (AdvancedWebsiteTraverser) ----
    site,          \* which of the modelled web sites is being crawled
    tasks,         \* the coroutines that call traverse_website on the instance
    visited_urls,  \* self.visited_urls
    pc,            \* per coroutine: position in _traverse_* ("idle", "loop", "fetch", "sleep", "done")
    queue,         \* per coroutine: the local list `queue` of <<url, depth>>
    pages,         \* per coroutine: the local list `pages`
    cur,           \* per coroutine: the popped <<url, depth>> being fetched
    call,          \* per coroutine: the arguments of the running traverse_website call
    returned,      \* per coroutine: the list returned by the last finished call
    fetchLog,      \* per coroutine: URLs whose fetch was started in the running call, in order
    fetchOk,       \* per coroutine: URLs whose fetch returned page data in the running call
    ncalls,        \* number of traverse_website calls made on the instance
    \* ---- generator (LLMsTxtGenerator) ----
    config,            \* self.config
    pages_data,        \* self.pages_data, the page-data store
    discovered_pages,  \* the list discover_pages returned last
    stage,             \* "idle", the step run() is at, or the exception that ended run()
    proc,              \* process_pages in progress: the list it was given and the loop index
    files,             \* the artifacts on disk: file name -> lines written (<<>>: not written)
    getLog,            \* the get_page_content calls made: <<url, outcome>>, in order
    budget,            \* run() calls the caller has still to make
    \* ---- a pure function under check ----
    arg,           \* the arguments drawn for the function
    result         \* <<>> before the function is applied, <<value>> after

tvars == <<site, tasks, visited_urls, pc, queue, pages, cur, call, returned, fetchLog, fetchOk, ncalls>>

gvars == <<config, pages_data, discovered_pages, stage, proc, files, getLog, budget>>

fvars == <<arg, result>>

vars == <<tvars, gvars, fvars>>

(***************************************************************************)
(* Bounds of the model.                                                    *)
(***************************************************************************)
MaxPagesBound == 3      \* max_pages ranges over 1..MaxPagesBound
MaxDepthBound == 2      \* max_depth ranges over 0..MaxDepthBound
MaxCalls == 2           \* traverse_website calls per traverser instance

(***************************************************************************)
(* Strings.                                                                *)
(***************************************************************************)
UpperChars == <<"A", "B", "C", "D", "E", "F", "G", "H", "I", "J", "K", "L", "M", "N", "O", "P", "Q", "R", "S", "T", "U", "V", "W", "X", "Y", "Z">>
LowerChars == <<"a", "b", "c", "d", "e", "f", "g", "h", "i", "j", "k", "l", "m", "n", "o", "p", "q", "r", "s", "t", "u", "v", "w", "x", "y", "z">>

\* str.lower() on one character (a scheme or host is kept as one token)
LowerTok(c) ==
    IF \E i \in 1..Len(UpperChars) : UpperChars[i] = c
    THEN LowerChars[CHOOSE i \in 1..Len(UpperChars) : UpperChars[i] = c]
    ELSE CASE c = "HTTPS" -> "https"
           [] c = "Example.com" -> "example.com"
           [] OTHER -> c

\* s.lower()
Lower(s) == [i \in 1..Len(s) |-> LowerTok(s[i])]

\* Python's `p in s` for strings
Contains(p, s) ==
    \E i \in 1..(Len(s) - Len(p) + 1) : SubSeq(s, i, i + Len(p) - 1) = p

\* the elements of a list
Range(s) == {s[i] : i \in 1..Len(s)}

\* list[:n]
Take(s, n) == SubSeq(s, 1, IF Len(s) < n THEN Len(s) ELSE n)

(***************************************************************************)
\* the printable ASCII characters in code point order, from 32 (space) to 126
\* (code point 96 is written "grave")
Ascii ==
    << " ", "!", "\"", "#", "$", "%", "&", "'", "(", ")", "*", "+", ",", "-", ".", "/",
       "0", "1", "2", "3", "4", "5", "6", "7", "8", "9", ":", ";", "<", "=", ">", "?",
       "@", "A", "B", "C", "D", "E", "F", "G", "H", "I", "J", "K", "L", "M", "N", "O",
       "P", "Q", "R", "S", "T", "U", "V", "W", "X", "Y", "Z", "[", "\\", "]", "^", "_",
       "grave", "a", "b", "c", "d", "e", "f", "g", "h", "i", "j", "k", "l", "m", "n", "o",
       "p", "q", "r", "s", "t", "u", "v", "w", "x", "y", "z", "{", "|", "}", "~" >>

\* ord(c)
CodePoint(c) == 31 + (CHOOSE i \in 1..Len(Ascii) : Ascii[i] = c)

\* Python's a < b for strings: by code point, a proper prefix first
RECURSIVE StrLess(_, _)
StrLess(a, b) ==
    IF b = <<>> THEN FALSE
    ELSE IF a = <<>> THEN TRUE
    ELSE IF Head(a) = Head(b) THEN StrLess(Tail(a), Tail(b))
    ELSE CodePoint(Head(a)) < CodePoint(Head(b))

(***************************************************************************)
(* The web sites crawled: each URL's page is its list of <a href> targets, *)
(* already resolved by urljoin (every href is absolute).                   *)
(***************************************************************************)
Host == "docs.example.com"
U(path) == <<"https", "://", Host>> \o path

uRoot == U(<<"/">>)
uDocsA == U(<<"/", "d", "o", "c", "s", "/", "a">>)
uApiB == U(<<"/", "a", "p", "i", "/", "b">>)
uDocsC == U(<<"/", "D", "O", "C", "S", "/", "c">>)
uGuideD == U(<<"/", "g", "u", "i", "d", "e", "/", "d">>)
uWikiW == U(<<"/", "W", "i", "k", "i", "/", "w">>)
uPaperP == U(<<"/", "p", "a", "p", "e", "r", "/", "p">>)
uAboutN == U(<<"/", "A", "b", "o", "u", "t", "/", "n">>)
uBlogM == U(<<"/", "b", "l", "o", "g", "/", "m">>)
uPlainX == U(<<"/", "x">>)
uStudyS == U(<<"/", "s", "t", "u", "d", "y", "/", "s">>)
uNewsV == U(<<"/", "n", "e", "w", "s", "/", "v">>)

Urls == {uRoot, uDocsA, uApiB, uDocsC, uGuideD, uWikiW, uPaperP, uAboutN, uBlogM, uPlainX,
         uStudyS, uNewsV}

NoLinks == [u \in Urls |-> <<>>]

\* a site with repeated links, self links and cycles in every mode
SiteCyclic ==
    [NoLinks EXCEPT
        ![uRoot] = <<uDocsA, uDocsA, uPlainX, uApiB, uWikiW, uAboutN, uRoot>>,
        ![uDocsA] = <<uDocsA, uRoot, uApiB, uDocsC>>,
        ![uApiB] = <<uDocsA, uDocsC, uPlainX>>,
        ![uDocsC] = <<uApiB>>,
        ![uWikiW] = <<uWikiW, uPaperP, uPaperP, uDocsA>>,
        ![uPaperP] = <<uWikiW>>,
        ![uAboutN] = <<uBlogM, uAboutN, uBlogM>>,
        ![uBlogM] = <<uAboutN>>]

\* a site whose seed page has more on-topic links than any fan-out cap
SiteWide ==
    [NoLinks EXCEPT
        ![uRoot] = <<uDocsA, uApiB, uDocsA, uApiB, uDocsA, uApiB, uDocsA, uApiB,
                     uDocsA, uApiB, uGuideD, uDocsC, uPlainX,
                     uWikiW, uPaperP, uWikiW, uPaperP, uWikiW, uPaperP, uWikiW, uPaperP,
                     uStudyS,
                     uAboutN, uBlogM, uAboutN, uBlogM, uAboutN, uBlogM, uAboutN, uBlogM,
                     uAboutN, uBlogM, uAboutN, uBlogM, uNewsV>>,
        ![uDocsA] = <<uGuideD>>]

Sites == [cyclic |-> SiteCyclic, wide |-> SiteWide]

StartUrls == {uRoot, uDocsA}

Modes == {"docs", "research", "map", "other"}

Tasks == {1, 2}

(***************************************************************************)
(* Traversal engine: link filters of the three modes.                      *)
(***************************************************************************)
doc_patterns == << <<"/", "d", "o", "c", "s", "/">>, <<"/", "d", "o", "c", "u", "m", "e", "n", "t", "a", "t", "i", "o", "n", "/">>, <<"/", "g", "u", "i", "d", "e", "/">>,
                   <<"/", "t", "u", "t", "o", "r", "i", "a", "l", "/">>, <<"/", "a", "p", "i", "/">>, <<"/", "r", "e", "f", "e", "r", "e", "n", "c", "e", "/">> >>

research_patterns == << <<"/", "w", "i", "k", "i", "/">>, <<"/", "a", "r", "t", "i", "c", "l", "e", "/">>, <<"/", "s", "t", "u", "d", "y", "/">>,
                        <<"/", "r", "e", "s", "e", "a", "r", "c", "h", "/">>, <<"/", "p", "a", "p", "e", "r", "/">> >>

nav_patterns == << <<"/", "a", "b", "o", "u", "t", "/">>, <<"/", "c", "o", "n", "t", "a", "c", "t", "/">>, <<"/", "s", "e", "r", "v", "i", "c", "e", "s", "/">>,
                   <<"/", "p", "r", "o", "d", "u", "c", "t", "s", "/">>, <<"/", "b", "l", "o", "g", "/">>, <<"/", "n", "e", "w", "s", "/">> >>

\* any(pattern in full_url.lower() for pattern in patterns)
MatchesAny(patterns, full_url) ==
    \E k \in 1..Len(patterns) : Contains(patterns[k], Lower(full_url))

\* _extract_documentation_links(html, base_url)
ExtractDocumentationLinks(hrefs) ==
    LET Keep(full_url) == MatchesAny(doc_patterns, full_url)
    IN  SelectSeq(hrefs, Keep)

\* _extract_research_links(html, base_url)
ExtractResearchLinks(hrefs) ==
    LET Keep(full_url) == MatchesAny(research_patterns, full_url)
    IN  SelectSeq(hrefs, Keep)

\* _extract_structure_links(html, base_url)
ExtractStructureLinks(hrefs) ==
    LET Keep(full_url) == MatchesAny(nav_patterns, full_url)
    IN  SelectSeq(hrefs, Keep)

\* the per-page fan-out caps: doc_links[:10], research_links[:8], structure_links[:12]
DocLinkCap == 10
ResearchLinkCap == 8
StructureLinkCap == 12

\* traverse_website's dispatch: the traversal a mode string selects
Dispatch(mode) ==
    CASE mode = "docs" -> "documentation"
      [] mode = "research" -> "research"
      [] mode = "map" -> "structure"
      [] OTHER -> "documentation"

\* a mutation: no cap on the links of a page
CandidateLinksUncapped(traversal, hrefs) ==
    CASE traversal = "documentation" -> ExtractDocumentationLinks(hrefs)
      [] traversal = "research" -> ExtractResearchLinks(hrefs)
      [] traversal = "structure" -> ExtractStructureLinks(hrefs)

\* the links one fetched page offers for enqueueing, after the mode's filter and cap
CandidateLinks(traversal, hrefs) ==
    CASE traversal = "documentation" -> Take(ExtractDocumentationLinks(hrefs), DocLinkCap)
      [] traversal = "research" -> Take(ExtractResearchLinks(hrefs), ResearchLinkCap)
      [] traversal = "structure" -> Take(ExtractStructureLinks(hrefs), StructureLinkCap)

\* a mutation: the links enqueued two levels below the page
EnqueueLinksTwoDeeper(q, links, visited, depth) ==
    LET NotVisited(link) == link \notin visited
        fresh == SelectSeq(links, NotVisited)
    IN  q \o [i \in 1..Len(fresh) |-> <<fresh[i], depth + 2>>]

\* a mutation: the links pushed on the front of the queue
EnqueueLinksAtFront(q, links, visited, depth) ==
    LET NotVisited(link) == link \notin visited
        fresh == SelectSeq(links, NotVisited)
    IN  [i \in 1..Len(fresh) |-> <<fresh[i], depth + 1>>] \o q

\* for link in links: if link not in self.visited_urls: queue.append((link, depth + 1))
EnqueueLinks(q, links, visited, depth) ==
    LET NotVisited(link) == link \notin visited
        fresh == SelectSeq(links, NotVisited)
    IN  q \o [i \in 1..Len(fresh) |-> <<fresh[i], depth + 1>>]

LoopConditionOffByOne(q, ps, max_pages) == q /= <<>> /\ Len(ps) <= max_pages

LoopConditionNoCap(q, ps, max_pages) == q /= <<>>

\* while queue and len(pages) < max_pages
LoopCondition(q, ps, max_pages) == q /= <<>> /\ Len(ps) < max_pages

SkipEntryNoVisited(url, depth, max_depth, visited) == depth > max_depth

\* if depth > max_depth or url in self.visited_urls: continue
SkipEntry(url, depth, max_depth, visited) == depth > max_depth \/ url \in visited

\* a mutation: the URL is not put into the set at the loop head
MarkVisitedNot(visited, url) == visited

\* self.visited_urls.add(url)
MarkVisited(visited, url) == visited \cup {url}

NoCall == [base |-> <<>>, mode |-> "none", max_pages |-> 0, max_depth |-> 0]

(***************************************************************************)
(* Traversal engine: the state machine of one traverser instance.          *)
(***************************************************************************)
\* __init__, the instance's coroutines idle
TraverserInit(ts) ==
    /\ site \in DOMAIN Sites
    /\ tasks = ts
    /\ visited_urls = {}
    /\ pc = [t \in Tasks |-> "idle"]
    /\ queue = [t \in Tasks |-> <<>>]
    /\ pages = [t \in Tasks |-> <<>>]
    /\ cur = [t \in Tasks |-> <<>>]
    /\ call = [t \in Tasks |-> NoCall]
    /\ returned = [t \in Tasks |-> <<>>]
    /\ fetchLog = [t \in Tasks |-> <<>>]
    /\ fetchOk = [t \in Tasks |-> {}]
    /\ ncalls = 0

\* no function is under check
NoFunction == arg = <<>> /\ result = <<>>

\* no generator is constructed
NoGenerator ==
    /\ config = [keys |-> {}]
    /\ pages_data = <<>>
    /\ discovered_pages = <<>>
    /\ stage = "idle"
    /\ proc = [active |-> FALSE, list |-> <<>>, i |-> 0]
    /\ files = [f \in {} |-> <<>>]
    /\ getLog = <<>>
    /\ budget = 0

\* traverse_website(base_url, mode, max_pages, max_depth) up to the first loop test
TraverseWebsite(t) ==
    /\ pc[t] \in {"idle", "done"}
    /\ ncalls < MaxCalls
    /\ \E base \in StartUrls, mode \in Modes,
          mp \in 1..MaxPagesBound, md \in 0..MaxDepthBound :
            call' = [call EXCEPT ![t] = [base |-> base, mode |-> mode,
                                         max_pages |-> mp, max_depth |-> md]]
    /\ pages' = [pages EXCEPT ![t] = <<>>]
    /\ queue' = [queue EXCEPT ![t] = << <<call'[t].base, 0>> >>]
    /\ fetchLog' = [fetchLog EXCEPT ![t] = <<>>]
    /\ cur' = [cur EXCEPT ![t] = <<>>]
    /\ pc' = [pc EXCEPT ![t] = "loop"]
    /\ ncalls' = ncalls + 1
    /\ fetchOk' = [fetchOk EXCEPT ![t] = {}]
    /\ UNCHANGED <<gvars, fvars>>
    /\ UNCHANGED <<site, tasks, visited_urls, returned>>

\* one pass of the loop head: pop, skip or mark visited and start the fetch
LoopPop(t) ==
    /\ pc[t] = "loop"
    /\ LoopCondition(queue[t], pages[t], call[t].max_pages)
    /\ LET url == Head(queue[t])[1]
           depth == Head(queue[t])[2]
       IN  /\ queue' = [queue EXCEPT ![t] = Tail(queue[t])]
           /\ IF SkipEntry(url, depth, call[t].max_depth, visited_urls)
              THEN UNCHANGED <<visited_urls, cur, fetchLog, pc>>
              ELSE /\ visited_urls' = MarkVisited(visited_urls, url)
                   /\ cur' = [cur EXCEPT ![t] = <<url, depth>>]
                   /\ fetchLog' = [fetchLog EXCEPT ![t] = Append(fetchLog[t], url)]
                   /\ pc' = [pc EXCEPT ![t] = "fetch"]
    /\ UNCHANGED <<gvars, fvars>>
    /\ UNCHANGED <<site, tasks, pages, call, returned, fetchOk, ncalls>>

\* the loop ends: return pages
LoopExit(t) ==
    /\ pc[t] = "loop"
    /\ ~LoopCondition(queue[t], pages[t], call[t].max_pages)
    /\ returned' = [returned EXCEPT ![t] = pages[t]]
    /\ pc' = [pc EXCEPT ![t] = "done"]
    /\ UNCHANGED <<gvars, fvars>>
    /\ UNCHANGED <<site, tasks, visited_urls, queue, pages, cur, call, fetchLog, fetchOk, ncalls>>

\* _fetch_page returned page data (status 200): tag, append, enqueue links
FetchPageOk(t) ==
    /\ pc[t] = "fetch"
    /\ LET url == cur[t][1]
           depth == cur[t][2]
           traversal == Dispatch(call[t].mode)
           page_data == [url |-> url, depth |-> depth, traversal_mode |-> traversal]
       IN  /\ pages' = [pages EXCEPT ![t] = Append(pages[t], page_data)]
           /\ queue' = [queue EXCEPT ![t] =
                  IF depth < call[t].max_depth
                  THEN EnqueueLinks(queue[t], CandidateLinks(traversal, Sites[site][url]),
                                    visited_urls, depth)
                  ELSE queue[t]]
    /\ fetchOk' = [fetchOk EXCEPT ![t] = fetchOk[t] \cup {cur[t][1]}]
    /\ pc' = [pc EXCEPT ![t] = "sleep"]
    /\ UNCHANGED <<gvars, fvars>>
    /\ UNCHANGED <<site, tasks, visited_urls, cur, call, returned, fetchLog, ncalls>>

\* a mutation: a fetch that gives nothing ends the traversal
FetchPageFailAborts(t) ==
    /\ pc[t] = "fetch"
    /\ pc' = [pc EXCEPT ![t] = "done"]
    /\ returned' = [returned EXCEPT ![t] = pages[t]]
    /\ UNCHANGED <<gvars, fvars>>
    /\ UNCHANGED <<site, tasks, visited_urls, queue, pages, cur, call, fetchLog, fetchOk, ncalls>>

\* _fetch_page returned None (non-200 status, or an exception caught inside it)
FetchPageFail(t) ==
    /\ pc[t] = "fetch"
    /\ pc' = [pc EXCEPT ![t] = "sleep"]
    /\ UNCHANGED <<gvars, fvars>>
    /\ UNCHANGED <<site, tasks, visited_urls, queue, pages, cur, call, returned, fetchLog, fetchOk, ncalls>>

\* a mutation: after the sleep the same URL is fetched again
SleepThenRetry(t) ==
    /\ pc[t] = "sleep"
    /\ pc' = [pc EXCEPT ![t] = "fetch"]
    /\ UNCHANGED <<gvars, fvars>>
    /\ UNCHANGED <<site, tasks, visited_urls, queue, pages, cur, call, returned, fetchLog, fetchOk, ncalls>>

\* await asyncio.sleep(self.rate_limit) is over
Sleep(t) ==
    /\ pc[t] = "sleep"
    /\ pc' = [pc EXCEPT ![t] = "loop"]
    /\ cur' = [cur EXCEPT ![t] = <<>>]
    /\ UNCHANGED <<gvars, fvars>>
    /\ UNCHANGED <<site, tasks, visited_urls, queue, pages, call, returned, fetchLog, fetchOk, ncalls>>

(***************************************************************************)
(* Claims about the traversal engine.                                      *)
(***************************************************************************)
NoDuplicates(s) == \A i, j \in 1..Len(s) : s[i] = s[j] => i = j

\* C1: within one traversal run no URL is fetched more than once, and every
\* URL whose fetch was started is already in the visited set.
C1_FetchAtMostOnce ==
    \A t \in tasks :
        /\ NoDuplicates(fetchLog[t])
        /\ Range(fetchLog[t]) \subseteq visited_urls

\* a finished docs run from the seed of the cyclic site, which links twice to
\* /docs/a: every queue entry was popped, /docs/a was fetched
C1_Witness ==
    \E t \in tasks :
        /\ pc[t] = "done" /\ queue[t] = <<>>
        /\ site = "cyclic" /\ call[t].base = uRoot /\ call[t].mode = "docs"
        /\ call[t].max_depth >= 1
        /\ uRoot \in fetchOk[t] /\ uDocsA \in Range(fetchLog[t])

\* C2: the result count never exceeds max_pages, no fetch is in progress at
\* result count max_pages, a finished run ended with an empty queue or with
\* max_pages results, and the loop leaves its head for the exit exactly when
\* the queue is empty or the count has reached max_pages.
C2_State ==
    \A t \in tasks :
        pc[t] # "idle" =>
            /\ Len(pages[t]) <= call[t].max_pages
            /\ pc[t] = "fetch" => Len(pages[t]) < call[t].max_pages
            /\ pc[t] = "done" =>
                  /\ returned[t] = pages[t]
                  /\ queue[t] = <<>> \/ Len(returned[t]) = call[t].max_pages

C2_Step ==
    \A t \in tasks :
        (pc[t] = "loop" /\ pc'[t] # "loop") =>
            (pc'[t] = "done" <=>
                (queue[t] = <<>> \/ Len(pages[t]) = call[t].max_pages))

C2_PageBound == [](C2_State) /\ [][C2_Step]_vars

\* a run that stopped at max_pages with entries left in its queue
C2_Witness ==
    \E t \in tasks :
        /\ pc[t] = "done" /\ queue[t] # <<>>
        /\ Len(returned[t]) = call[t].max_pages

\* C3, as claimed: a docs-mode traversal with max_pages=1 returns exactly one page.
C3_ExactlyOnePage ==
    \A t \in tasks :
        (pc[t] = "done" /\ call[t].mode = "docs" /\ call[t].max_pages = 1) =>
            Len(returned[t]) = 1

\* C3, amended: such a traversal returns at most one page: the seed page alone
\* when the seed's fetch succeeded, and nothing when that fetch failed or the
\* seed was skipped.
C3_AtMostOnePage ==
    \A t \in tasks :
        (pc[t] = "done" /\ call[t].mode = "docs" /\ call[t].max_pages = 1) =>
            /\ Len(returned[t]) <= 1
            /\ call[t].base \in fetchOk[t] =>
                  /\ Len(returned[t]) = 1
                  /\ returned[t][1].url = call[t].base
                  /\ fetchLog[t] = <<call[t].base>>
            /\ call[t].base \notin fetchOk[t] => returned[t] = <<>>

\* the seed of the wide site was fetched and its links enqueued, one page returned
C3_Witness ==
    \E t \in tasks :
        /\ pc[t] = "done" /\ call[t].mode = "docs" /\ call[t].max_pages = 1
        /\ site = "wide" /\ call[t].base = uRoot
        /\ Len(queue[t]) >= DocLinkCap
        /\ Len(returned[t]) = 1

\* the state right after traverse_website was called, before the first pop
AtCallStart(t) ==
    /\ pc[t] = "loop"
    /\ fetchLog[t] = <<>> /\ pages[t] = <<>>
    /\ queue[t] = << <<call[t].base, 0>> >>

\* C4, as claimed: at the start of every traverse_website call the visited set
\* is empty.
C4_VisitedResetEachRun ==
    \A t \in tasks : AtCallStart(t) => visited_urls = {}

Init == TraverserInit({1}) /\ NoGenerator /\ NoFunction

Next ==
    \/ \E t \in tasks : TraverseWebsite(t)
    \/ \E t \in tasks : LoopPop(t)
    \/ \E t \in tasks : LoopExit(t)
    \/ \E t \in tasks : FetchPageOk(t)
    \/ \E t \in tasks : FetchPageFail(t)
    \/ \E t \in tasks : Sleep(t)

Spec == Init /\ [][Next]_vars

(***************************************************************************)
(* URL Validator: LLMsTxtGenerator._is_valid_url.                          *)
(***************************************************************************)
\* urlparse(url).scheme (urlparse lower-cases the scheme)
UrlScheme(url) ==
    IF Len(url) >= 2 /\ url[2] \in {"://", ":"} THEN LowerTok(url[1]) ELSE ""

\* urlparse(url).netloc (kept as written)
UrlNetloc(url) ==
    IF Len(url) >= 3 /\ url[2] = "://" THEN url[3] ELSE ""

skip_patterns ==
    << <<"#">>, <<"j", "a", "v", "a", "s", "c", "r", "i", "p", "t", ":">>, <<"m", "a", "i", "l", "t", "o", ":">>, <<"t", "e", "l", ":">>, <<"f", "t", "p", ":", "/", "/">>,
       <<".", "p", "d", "f">>, <<".", "j", "p", "g">>, <<".", "j", "p", "e", "g">>, <<".", "p", "n", "g">>, <<".", "g", "i", "f">>, <<".", "s", "v", "g">>,
       <<".", "c", "s", "s">>, <<".", "j", "s">>, <<".", "x", "m", "l">>, <<".", "z", "i", "p">>, <<".", "t", "a", "r">>, <<".", "g", "z">> >>

\* for pattern in patterns: if pattern in s: ...
AnyPatternIn(patterns, s) == \E k \in 1..Len(patterns) : Contains(patterns[k], s)

IsValidUrlCaseSensitiveSkip(url, base_url, include_patterns, exclude_patterns) ==
    IF UrlScheme(url) \notin {"http", "https"} THEN FALSE
    ELSE IF UrlNetloc(url) # UrlNetloc(base_url) THEN FALSE
    ELSE IF AnyPatternIn(skip_patterns, url) THEN FALSE
    ELSE IF AnyPatternIn(exclude_patterns, url) THEN FALSE
    ELSE IF include_patterns # <<>> THEN AnyPatternIn(include_patterns, url)
    ELSE TRUE

\* _is_valid_url(url, base_url) under the configured include/exclude patterns
IsValidUrl(url, base_url, include_patterns, exclude_patterns) ==
    IF UrlScheme(url) \notin {"http", "https"} THEN FALSE
    ELSE IF UrlNetloc(url) # UrlNetloc(base_url) THEN FALSE
    ELSE IF AnyPatternIn(skip_patterns, Lower(url)) THEN FALSE
    ELSE IF AnyPatternIn(exclude_patterns, url) THEN FALSE
    ELSE IF include_patterns # <<>> THEN AnyPatternIn(include_patterns, url)
    ELSE TRUE

\* the candidate URLs, base URLs and pattern lists the validator is checked on
CandidateSchemes == {<<"https", "://">>, <<"http", "://">>, <<"HTTPS", "://">>,
                     <<"ftp", "://">>, <<"mailto", ":">>}

CandidateHosts == {"example.com", "Example.com", "other.com"}

CandidatePaths ==
    { <<>>, <<"/", "d", "o", "c", "s">>, <<"/", "d", "o", "c", "s", "#", "s">>, <<"/", "a", ".", "P", "D", "F">>, <<"/", "a", ".", "j", "s", "o", "n">>, <<"/", "a", "p", "i", "/", "v", "1">>,
      <<"/", "a", "p", "i", "/", "x", ".", "C", "s", "s">>, <<"/", "u", "=", "f", "t", "p", ":", "/", "/", "y">>, <<"/", "T", "e", "l", ":", "1">> }

CandidateUrls ==
    { IF sch[2] = "://" THEN sch \o <<h>> \o path ELSE sch \o path :
        sch \in CandidateSchemes, h \in CandidateHosts, path \in CandidatePaths }

BaseUrls == { <<"https", "://", "example.com">>,
              <<"http", "://", "example.com">> \o <<"/", "d", "o", "c", "s">>,
              <<"https", "://", "other.com">> \o <<"/">> }

IncludeLists == { <<>>, << <<"/", "a", "p", "i", "/">> >>, << <<"/", "d", "o", "c", "s">>, <<"/", "v", "1">> >> }

ExcludeLists == { <<>>, << <<"/", "a", "p", "i", "/">> >>, << <<"/", "v", "1">>, <<"/", "a", ".">> >> }

\* the validator's inputs are drawn
UrlInit ==
    /\ arg \in [url : CandidateUrls, base_url : BaseUrls,
                include_patterns : IncludeLists, exclude_patterns : ExcludeLists]
    /\ result = <<>>

\* the traverser is constructed and never called
TraverserUnused == TraverserInit({}) /\ site = "cyclic"

\* _is_valid_url is applied to the drawn inputs
ApplyIsValidUrl ==
    /\ result = <<>>
    /\ result' = << IsValidUrl(arg.url, arg.base_url,
                               arg.include_patterns, arg.exclude_patterns) >>
    /\ UNCHANGED <<arg, tvars, gvars>>

InitUrl == TraverserUnused /\ NoGenerator /\ UrlInit

NextUrl == ApplyIsValidUrl

SpecUrl == InitUrl /\ [][NextUrl]_vars

\* C7: _is_valid_url returns true exactly when the five rules hold: http(s)
\* scheme, the base URL's host, no denylist marker in the lowercased URL, no
\* exclude pattern in the URL, and some include pattern in the URL when any
\* is configured. So another host, a denylist marker or an exclude match
\* always rejects.
C7_Rule1 == UrlScheme(arg.url) = "http" \/ UrlScheme(arg.url) = "https"

C7_Rule2 == UrlNetloc(arg.url) = UrlNetloc(arg.base_url)

C7_Rule3 == \A k \in 1..Len(skip_patterns) : ~Contains(skip_patterns[k], Lower(arg.url))

C7_Rule4 ==
    \A k \in 1..Len(arg.exclude_patterns) : ~Contains(arg.exclude_patterns[k], arg.url)

C7_Rule5 ==
    Len(arg.include_patterns) > 0 =>
        \E k \in 1..Len(arg.include_patterns) : Contains(arg.include_patterns[k], arg.url)

C7_ValidIffRulesHold ==
    result # <<>> =>
        /\ result[1] = (C7_Rule1 /\ C7_Rule2 /\ C7_Rule3 /\ C7_Rule4 /\ C7_Rule5)
        /\ ~C7_Rule2 => result[1] = FALSE
        /\ ~C7_Rule3 => result[1] = FALSE
        /\ (~C7_Rule4 /\ C7_Rule5) => result[1] = FALSE

\* an accepted URL with include and exclude patterns configured
C7_Witness ==
    /\ result = <<TRUE>>
    /\ arg.include_patterns # <<>> /\ arg.exclude_patterns # <<>>

(***************************************************************************)
(* Page Categorizer: LLMsTxtGenerator._categorize_page.  category_rules    *)
(* is a dict: a list of rules in insertion order, no category twice.       *)
(***************************************************************************)
Other == <<"O", "t", "h", "e", "r">>

\* a mutation: every rule's URL patterns are tried before any title pattern
RECURSIVE CategorizeByUrlOnly(_, _)
CategorizeByUrlOnly(rules, url) ==
    IF rules = <<>> THEN <<>>
    ELSE IF AnyPatternIn(Head(rules).url_patterns, url) THEN Head(rules).category
    ELSE CategorizeByUrlOnly(Tail(rules), url)

RECURSIVE CategorizeByTitleOnly(_, _)
CategorizeByTitleOnly(rules, title) ==
    IF rules = <<>> THEN Other
    ELSE IF AnyPatternIn(Head(rules).title_patterns, title) THEN Head(rules).category
    ELSE CategorizeByTitleOnly(Tail(rules), title)

CategorizeUrlPassFirst(rules, url, title) ==
    IF CategorizeByUrlOnly(rules, url) # <<>> THEN CategorizeByUrlOnly(rules, url)
    ELSE CategorizeByTitleOnly(rules, title)

\* for category, rules in category_rules.items(): URL patterns, then title patterns
RECURSIVE CategorizeFrom(_, _, _)
CategorizeFrom(rules, url, title) ==
    IF rules = <<>> THEN Other
    ELSE IF AnyPatternIn(Head(rules).url_patterns, url) THEN Head(rules).category
    ELSE IF AnyPatternIn(Head(rules).title_patterns, title) THEN Head(rules).category
    ELSE CategorizeFrom(Tail(rules), url, title)

\* _categorize_page(processed): the title is lower-cased, the URL is not
CategorizePage(processed, category_rules) ==
    CategorizeFrom(category_rules, processed.url, Lower(processed.title))

\* the rules, pages and rule orders the categorizer is checked on
RuleApi == [category |-> <<"A", "P", "I">>, url_patterns |-> << <<"/", "a", "p", "i", "/">> >>,
            title_patterns |-> << <<"a", "p", "i">> >>]

RuleApiUpper == [category |-> <<"A", "P", "I">>, url_patterns |-> <<>>,
                 title_patterns |-> << <<"A", "P", "I">> >>]

RuleGuides == [category |-> <<"G", "u", "i", "d", "e", "s">>, url_patterns |-> << <<"/", "g", "u", "i", "d", "e", "/">> >>,
               title_patterns |-> << <<"t", "u", "t", "o", "r", "i", "a", "l">>, <<"g", "u", "i", "d", "e">> >>]

RuleRef == [category |-> <<"R", "e", "f">>, url_patterns |-> << <<"/", "v", "1">>, <<"/", "r", "e", "f">> >>,
            title_patterns |-> <<>>]

CategoryRuleSet == {RuleApi, RuleApiUpper, RuleGuides, RuleRef}

MaxRules == 3

\* the dicts of at most MaxRules rules: every order, no category twice
CategoryRuleLists ==
    { rs \in UNION { [1..n -> CategoryRuleSet] : n \in 0..MaxRules } :
        \A i, j \in 1..Len(rs) : rs[i].category = rs[j].category => i = j }

CategorizedUrls == { <<"https", "://", "example.com">> \o path :
                        path \in { <<"/", "a", "p", "i", "/", "r", "e", "f">>, <<"/", "g", "u", "i", "d", "e", "/", "x">>, <<"/", "s", "o", "m", "e", "-", "p", "a", "g", "e">>, <<"/", "A", "P", "I", "/">> } }

CategorizedTitles == { <<"A", "P", "I", " ", "D", "o", "c", "s">>, <<"U", "s", "e", "r", " ", "G", "u", "i", "d", "e">>, <<"a", "p", "i">>, <<"R", "a", "n", "d", "o", "m">> }

CategorizeInit ==
    /\ arg \in [url : CategorizedUrls, title : CategorizedTitles,
                category_rules : CategoryRuleLists]
    /\ result = <<>>

\* _categorize_page is applied to the drawn page and rules
ApplyCategorizePage ==
    /\ result = <<>>
    /\ result' = << CategorizePage([url |-> arg.url, title |-> arg.title],
                                   arg.category_rules) >>
    /\ UNCHANGED <<arg, tvars, gvars>>

InitCat == TraverserUnused /\ NoGenerator /\ CategorizeInit

NextCat == ApplyCategorizePage

SpecCat == InitCat /\ [][NextCat]_vars

\* does rule r match the page, its title patterns looked up in `title`
C8_RuleMatches(r, url, title) ==
    \/ \E k \in 1..Len(r.url_patterns) : Contains(r.url_patterns[k], url)
    \/ \E k \in 1..Len(r.title_patterns) : Contains(r.title_patterns[k], title)

\* the category of the first matching rule in insertion order, else "Other"
C8_FirstMatch(rules, url, title) ==
    IF \E i \in 1..Len(rules) : C8_RuleMatches(rules[i], url, title)
    THEN LET first == CHOOSE i \in 1..Len(rules) :
                        /\ C8_RuleMatches(rules[i], url, title)
                        /\ \A j \in 1..(i - 1) : ~C8_RuleMatches(rules[j], url, title)
         IN  rules[first].category
    ELSE Other

\* C8, as claimed: the result is the first category, in insertion order, with a
\* URL pattern in the page URL or a title pattern in the page title.
C8_FirstRuleByUrlOrTitle ==
    result # <<>> =>
        result[1] = C8_FirstMatch(arg.category_rules, arg.url, arg.title)

\* C8, amended: the result is the first category, in insertion order, with a
\* URL pattern in the page URL or a title pattern in the lower-cased page
\* title; an earlier rule matching only by title wins over a later rule
\* matching by URL; "Other" when no rule matches.
C8_FirstRuleByUrlOrLowerTitle ==
    result # <<>> =>
        /\ result[1] = C8_FirstMatch(arg.category_rules, arg.url, Lower(arg.title))
        /\ (\A i \in 1..Len(arg.category_rules) :
                ~C8_RuleMatches(arg.category_rules[i], arg.url, Lower(arg.title)))
              => result[1] = Other

\* an earlier rule matched by the lower-cased title only, a later one by URL
C8_Witness ==
    /\ result # <<>> /\ Len(arg.category_rules) >= 2
    /\ result[1] = arg.category_rules[1].category
    /\ ~AnyPatternIn(arg.category_rules[1].url_patterns, arg.url)
    /\ ~AnyPatternIn(arg.category_rules[1].title_patterns, arg.title)
    /\ AnyPatternIn(arg.category_rules[1].title_patterns, Lower(arg.title))
    /\ AnyPatternIn(arg.category_rules[2].url_patterns, arg.url)

(***************************************************************************)
(* Generator: configuration and page records.  A name, description or      *)
(* page content is opaque text; titles, categories and URLs are character  *)
(* sequences.                                                              *)
(***************************************************************************)
\* config.get(key, default)
ConfigGet(cfg, key, default) == IF key \in cfg.keys THEN cfg[key] ELSE default

\* config.get("max_pages", 100)
DefaultMaxPages == 100

FileNames == {"llms.txt", "llms-full.txt", "llms-ctx.txt", "llms-ctx-full.txt",
              "documentation_data.json"}

NoFiles == [f \in FileNames |-> <<>>]

NoProc == [active |-> FALSE, list |-> <<>>, i |-> 0]

\* one written line or element of an artifact
Line(kind, text, heading, title, url) ==
    [kind |-> kind, text |-> text, heading |-> heading, title |-> title, url |-> url]

(***************************************************************************)
(* Renderer: generate_llms_txt, generate_llms_full_txt, _generate_ctx_file.*)
(***************************************************************************)
\* the keys of the dict `categories`, in order of first insertion
RECURSIVE GroupKeys(_, _)
GroupKeys(store, keys) ==
    IF store = <<>> THEN keys
    ELSE IF Head(store).category \in Range(keys) THEN GroupKeys(Tail(store), keys)
    ELSE GroupKeys(Tail(store), Append(keys, Head(store).category))

\* categories[category]: the pages of the category in store order
GroupPages(store, category) ==
    LET InCategory(page) == page.category = category
    IN  SelectSeq(store, InCategory)

\* sorted(): the place of a new key in a sorted list, after every key not greater
RECURSIVE InsertKey(_, _)
InsertKey(sorted, key) ==
    IF sorted = <<>> THEN <<key>>
    ELSE IF StrLess(key, Head(sorted)) THEN <<key>> \o sorted
    ELSE <<Head(sorted)>> \o InsertKey(Tail(sorted), key)

\* a mutation: the keys in their order of insertion
SortedKeysUnsorted(keys) == keys

\* sorted(categories.keys())
RECURSIVE SortedKeys(_)
SortedKeys(keys) ==
    IF keys = <<>> THEN <<>>
    ELSE InsertKey(SortedKeys(SubSeq(keys, 1, Len(keys) - 1)), keys[Len(keys)])

\* a mutation: the pages ordered by URL length instead of title
RECURSIVE InsertPageByUrl(_, _)
InsertPageByUrl(sorted, page) ==
    IF sorted = <<>> THEN <<page>>
    ELSE IF Len(page.url) < Len(Head(sorted).url) THEN <<page>> \o sorted
    ELSE <<Head(sorted)>> \o InsertPageByUrl(Tail(sorted), page)

RECURSIVE InsertPage(_, _)
InsertPage(sorted, page) ==
    IF sorted = <<>> THEN <<page>>
    ELSE IF StrLess(page.title, Head(sorted).title) THEN <<page>> \o sorted
    ELSE <<Head(sorted)>> \o InsertPage(Tail(sorted), page)

\* sorted(pages, key=lambda x: x["title"]): stable
RECURSIVE SortedByTitle(_)
SortedByTitle(ps) ==
    IF ps = <<>> THEN <<>>
    ELSE InsertPage(SortedByTitle(SubSeq(ps, 1, Len(ps) - 1)), ps[Len(ps)])

\* the H2 text of a category: "Optional" for "Other"
Heading(category) == IF category = Other THEN <<"O", "p", "t", "i", "o", "n", "a", "l">> ELSE category

\* the H1 line, the blockquote and the optional free text
HeaderLines(cfg) ==
    << Line("h1", cfg.name, <<>>, <<>>, <<>>), Line("quote", cfg.description, <<>>, <<>>, <<>>) >>
    \o (IF ConfigGet(cfg, "additional_info", "") # ""
        THEN << Line("info", cfg.additional_info, <<>>, <<>>, <<>>) >>
        ELSE <<>>)

\* - [title](url): description
ItemLine(page) == Line("item", page.description, <<>>, page.title, page.url)

RECURSIVE IndexItems(_)
IndexItems(ps) ==
    IF ps = <<>> THEN <<>> ELSE <<ItemLine(Head(ps))>> \o IndexItems(Tail(ps))

RECURSIVE IndexSections(_, _)
IndexSections(store, cats) ==
    IF cats = <<>> THEN <<>>
    ELSE << Line("h2", "", Heading(Head(cats)), <<>>, <<>>) >>
         \o IndexItems(SortedByTitle(GroupPages(store, Head(cats))))
         \o IndexSections(store, Tail(cats))

\* generate_llms_txt: the lines of llms.txt
LlmsTxt(cfg, store) ==
    HeaderLines(cfg) \o IndexSections(store, SortedKeys(GroupKeys(store, <<>>)))

RECURSIVE FullItems(_)
FullItems(ps) ==
    IF ps = <<>> THEN <<>>
    ELSE << ItemLine(Head(ps)), Line("content", Head(ps).content, <<>>, <<>>, <<>>),
            Line("rule", "", <<>>, <<>>, <<>>) >> \o FullItems(Tail(ps))

\* a mutation: the pages of a section in store order
RECURSIVE FullSectionsStoreOrder(_, _)
FullSectionsStoreOrder(store, cats) ==
    IF cats = <<>> THEN <<>>
    ELSE << Line("h2", "", Heading(Head(cats)), <<>>, <<>>) >>
         \o FullItems(GroupPages(store, Head(cats)))
         \o FullSectionsStoreOrder(store, Tail(cats))

RECURSIVE FullSections(_, _)
FullSections(store, cats) ==
    IF cats = <<>> THEN <<>>
    ELSE << Line("h2", "", Heading(Head(cats)), <<>>, <<>>) >>
         \o FullItems(SortedByTitle(GroupPages(store, Head(cats))))
         \o FullSections(store, Tail(cats))

\* generate_llms_full_txt: the lines of llms-full.txt
LlmsFullTxt(cfg, store) ==
    HeaderLines(cfg) \o FullSections(store, SortedKeys(GroupKeys(store, <<>>)))

RECURSIVE CtxPages(_)
CtxPages(ps) ==
    IF ps = <<>> THEN <<>>
    ELSE << Line("page", "", <<>>, Head(ps).title, Head(ps).url),
            Line("content", Head(ps).content, <<>>, <<>>, <<>>),
            Line("/page", "", <<>>, <<>>, <<>>) >> \o CtxPages(Tail(ps))

RECURSIVE CtxSections(_, _, _)
CtxSections(store, cats, include_optional) ==
    IF cats = <<>> THEN <<>>
    ELSE IF Head(cats) = Other /\ ~include_optional
         THEN CtxSections(store, Tail(cats), include_optional)
    ELSE << Line("section", "", Head(cats), <<>>, <<>>) >>
         \o CtxPages(SortedByTitle(GroupPages(store, Head(cats))))
         \o << Line("/section", "", <<>>, <<>>, <<>>) >>
         \o CtxSections(store, Tail(cats), include_optional)

\* _generate_ctx_file(output_file, include_optional): the elements of a context file
CtxFile(cfg, store, include_optional) ==
    << Line("project", cfg.name, <<>>, <<>>, <<>>) >>
    \o CtxSections(store, SortedKeys(GroupKeys(store, <<>>)), include_optional)
    \o << Line("/project", "", <<>>, <<>>, <<>>) >>

\* save_data: json.dump(self.pages_data)
DataJson(store) == << [kind |-> "json", records |-> store] >>

(***************************************************************************)
(* Content Extractor, as far as the pipeline needs it: the title chain of  *)
(* ContentProcessor._extract_title on the cleaned document.  A document is *)
(* a record: the text of its <title>, the texts of its <h1> elements, its  *)
(* meta title, whether it has a main-content container (the cleaning then  *)
(* keeps that container alone, and with it only the <h1> elements inside), *)
(* its description and body text, and its <a href> targets resolved by     *)
(* urljoin.                                                                *)
(***************************************************************************)
Doc(has_main, title_tag, h1, meta_title, description, content, hrefs) ==
    [has_main |-> has_main, title_tag |-> title_tag, h1 |-> h1, meta_title |-> meta_title,
     description |-> description, content |-> content, hrefs |-> hrefs, raises |-> FALSE]

\* a document on which a cleaning pass or an extraction step raises an exception
RaisingDoc(doc) == [doc EXCEPT !.raises = TRUE]

\* the empty string as a fetched body
EmptyDoc == Doc(FALSE, <<>>, <<>>, <<>>, "", "", <<>>)

\* str.strip()
RECURSIVE LStrip(_)
LStrip(t) == IF t # <<>> /\ Head(t) = " " THEN LStrip(Tail(t)) ELSE t

RECURSIVE RStrip(_)
RStrip(t) ==
    IF t # <<>> /\ t[Len(t)] = " " THEN RStrip(SubSeq(t, 1, Len(t) - 1)) ELSE t

Strip(t) == RStrip(LStrip(t))

\* title.split(suffix)[0]
SplitFirst(t, suffix) ==
    IF Contains(suffix, t)
    THEN LET at == CHOOSE i \in 1..(Len(t) - Len(suffix) + 1) :
                      /\ SubSeq(t, i, i + Len(suffix) - 1) = suffix
                      /\ \A j \in 1..(i - 1) : SubSeq(t, j, j + Len(suffix) - 1) # suffix
         IN  SubSeq(t, 1, at - 1)
    ELSE t

\* the suffix separators " | ", " - ", " :: " (the em dash " -- " is written "EMDASH")
title_suffixes == << <<" ", "|", " ">>, <<" ", "-", " ">>, <<" ", "EMDASH", " ">>, <<" ", ":", ":", " ">> >>

\* for suffix in [...]: if suffix in title: title = title.split(suffix)[0].strip()
RECURSIVE CleanSuffixes(_, _)
CleanSuffixes(title, suffixes) ==
    IF suffixes = <<>> THEN title
    ELSE CleanSuffixes(IF Contains(Head(suffixes), title)
                       THEN Strip(SplitFirst(title, Head(suffixes)))
                       ELSE title,
                       Tail(suffixes))

IsLetter(c) ==
    \E i \in 1..Len(UpperChars) : UpperChars[i] = c \/ LowerChars[i] = c

\* str.upper() on one character
UpperTok(c) ==
    IF \E i \in 1..Len(LowerChars) : LowerChars[i] = c
    THEN UpperChars[CHOOSE i \in 1..Len(LowerChars) : LowerChars[i] = c]
    ELSE c

\* str.title()
TitleCase(t) ==
    [i \in 1..Len(t) |->
        IF i = 1 \/ ~IsLetter(t[i - 1]) THEN UpperTok(t[i]) ELSE LowerTok(t[i])]

\* str.strip("/")
RECURSIVE StripSlashes(_)
StripSlashes(t) ==
    IF t # <<>> /\ Head(t) = "/" THEN StripSlashes(Tail(t))
    ELSE IF t # <<>> /\ t[Len(t)] = "/" THEN StripSlashes(SubSeq(t, 1, Len(t) - 1))
    ELSE t

\* urlparse(url).path: what follows the netloc, up to "?" or "#"
UrlPath(url) ==
    LET rest == SubSeq(url, 4, Len(url))
        stops == {i \in 1..Len(rest) : rest[i] \in {"?", "#"}}
    IN  IF stops = {} THEN rest
        ELSE SubSeq(rest, 1, (CHOOSE i \in stops : \A j \in stops : i <= j) - 1)

\* path.strip("/").replace("-", " ").replace("_", " ").title()
UrlPathTitle(path) ==
    LET bare == StripSlashes(path)
    IN  TitleCase([i \in 1..Len(bare) |-> IF bare[i] \in {"-", "_"} THEN " " ELSE bare[i]])

\* the first <h1> text of more than 3 characters, <<>> if none
RECURSIVE FirstLongH1(_)
FirstLongH1(h1s) ==
    IF h1s = <<>> THEN <<>>
    ELSE IF Len(Strip(Head(h1s))) > 3 THEN Strip(Head(h1s))
    ELSE FirstLongH1(Tail(h1s))

\* _extract_title(soup, url) on the cleaned document
ExtractTitle(doc, url) ==
    LET title_tag == IF doc.has_main THEN <<>> ELSE doc.title_tag
        meta_title == IF doc.has_main THEN <<>> ELSE doc.meta_title
        cleaned == CleanSuffixes(Strip(title_tag), title_suffixes)
        path == UrlPath(url)
    IN  IF title_tag # <<>> /\ Len(cleaned) > 3 THEN cleaned
        ELSE IF FirstLongH1(doc.h1) # <<>> THEN FirstLongH1(doc.h1)
        ELSE IF meta_title # <<>> THEN Strip(meta_title)
        ELSE IF path # <<>> /\ path # <<"/">> /\ UrlPathTitle(path) # <<>>
             THEN UrlPathTitle(path)
        ELSE <<"U", "n", "t", "i", "t", "l", "e", "d">>

\* the record of the except branch of process_content
DegradedRecord(url) ==
    [url |-> url, title |-> <<"E", "r", "r", "o", "r", " ", "P", "r", "o", "c", "e", "s", "s", "i", "n", "g", " ", "C", "o", "n", "t", "e", "n", "t">>,
     description |-> "Failed to process content", main_content |-> ""]

\* a mutation: an exception of a cleaning pass leaves a record with no title
ProcessContentBlankOnError(doc, url) ==
    IF doc.raises
    THEN [url |-> url, title |-> <<>>, description |-> "", main_content |-> ""]
    ELSE [url |-> url, title |-> ExtractTitle(doc, url),
          description |-> doc.description, main_content |-> doc.content]

\* process_content(html_content, url): the fields process_pages reads;
\* try: clean and extract, except Exception: the degraded record
ProcessContent(doc, url) ==
    IF doc.raises THEN DegradedRecord(url)
    ELSE [url |-> url, title |-> ExtractTitle(doc, url),
          description |-> doc.description, main_content |-> doc.content]

(***************************************************************************)
(* Generator: the web it crawls, its configurations.                       *)
(***************************************************************************)
G(path) == <<"https", "://", "example.com">> \o path

gSeed == G(<<>>)
gHome == G(<<"/">>)
gDocs == G(<<"/", "d", "o", "c", "s">>)
gApiFoo == G(<<"/", "a", "p", "i", "/", "f", "o", "o">>)
gGuideBar == G(<<"/", "g", "u", "i", "d", "e", "/", "b", "a", "r">>)
gFile == G(<<"/", "m", ".", "P", "D", "F">>)
gFragment == G(<<"/", "d", "o", "c", "s", "#", "t", "o", "p">>)
gElsewhere == <<"https", "://", "other.com">> \o <<"/", "x">>
gStart == G(<<"/", "s", "t", "a", "r", "t">>)

gDeep == G(<<"/", "d", "e", "e", "p">>)

GenUrls == {gSeed, gHome, gDocs, gApiFoo, gGuideBar, gFile, gFragment, gElsewhere, gStart, gDeep}

SeedDoc ==
    Doc(FALSE, <<"D", "o", "c", "s", " ", "|", " ", "E", "x", "a", "m", "p", "l", "e">>, << <<"W", "e", "l", "c", "o", "m", "e">> >>, <<>>, "About the docs", "seed text",
        <<gApiFoo, gHome, gApiFoo, gGuideBar, gElsewhere, gFile, gFragment>>)

GenWeb ==
    [u \in GenUrls |->
        CASE u = gSeed -> SeedDoc
          [] u = gHome -> SeedDoc
          [] u = gDocs -> Doc(TRUE, <<"A", "l", "l", " ", "d", "o", "c", "s">>, << <<"D", "o", "c">> >>, <<>>, "", "docs text",
                              <<gSeed, gFragment, gGuideBar, gDocs, gApiFoo, gStart>>)
          [] u = gApiFoo -> Doc(TRUE, <<"S", "i", "t", "e">>, << <<"A", "P", "I">>, <<"F", "o", "o", " ", "A", "P", "I">> >>, <<>>,
                                "The foo calls", "foo text", <<>>)
          [] u = gGuideBar -> Doc(FALSE, <<"B", "a", "r", " ", "G", "u", "i", "d", "e", " ", "-", " ", "E", "x", "a", "m", "p", "l", "e">>, <<>>, <<>>, "",
                                  "bar text", <<gSeed>>)
          [] u = gStart -> Doc(FALSE, <<"S", "t", "a", "r", "t">>, <<>>, <<>>, "Where to begin", "start text",
                               <<gApiFoo, gGuideBar>>)
          [] u = gDeep -> RaisingDoc(Doc(FALSE, <<"D", "e", "e", "p", " ", "P", "a", "g", "e">>, <<>>, <<>>, "Nested", "deep text",
                                         <<gGuideBar>>))
          [] OTHER -> Doc(FALSE, <<>>, <<>>, <<>>, "", "other text", <<>>)]

\* what a GET can do: a body, an empty body, or an exception (network error,
\* timeout, raise_for_status on a non-2xx status)
Outcomes == {"ok", "empty", "error"}

\* get_page_content(url): response.text, or "" in the except branch
GetPageContent(url, outcome) ==
    IF outcome = "ok" THEN GenWeb[url]
    ELSE IF outcome = "empty" THEN EmptyDoc
    ELSE EmptyDoc

MaxGenPages == 3

SeedLists == { <<gSeed>>, <<gSeed, gDocs>>, <<gDocs, gSeed>>, <<gStart>>, <<gDeep, gStart>> }

RulesApiGuides ==
    << [category |-> <<"A", "P", "I">>, url_patterns |-> << <<"/", "a", "p", "i", "/">> >>, title_patterns |-> <<>>],
       [category |-> <<"G", "u", "i", "d", "e", "s">>, url_patterns |-> << <<"/", "g", "u", "i", "d", "e", "/">> >>, title_patterns |-> <<>>] >>

RulesTitleFirst ==
    << [category |-> <<"Z", "e", "d">>, url_patterns |-> <<>>, title_patterns |-> << <<"d", "o", "c", "s">> >>],
       [category |-> <<"A", "P", "I">>, url_patterns |-> << <<"/", "a", "p", "i", "/">> >>,
        title_patterns |-> << <<"g", "u", "i", "d", "e">> >>] >>

\* the optional keys of a configuration: rules and URL patterns
ConfigProfiles ==
    { [keys |-> {}, category_rules |-> <<>>, include_patterns |-> <<>>,
       exclude_patterns |-> <<>>],
      [keys |-> {"category_rules"}, category_rules |-> RulesApiGuides,
       include_patterns |-> <<>>, exclude_patterns |-> <<>>],
      [keys |-> {"category_rules", "exclude_patterns"}, category_rules |-> RulesTitleFirst,
       include_patterns |-> <<>>, exclude_patterns |-> << <<"/", "g", "u", "i", "d", "e", "/">> >>] }

GenConfigs ==
    { [keys |-> {"name", "description", "urls"} \cup prof.keys
                \cup (IF mp = 0 THEN {} ELSE {"max_pages"}),
       name |-> "Example Docs", description |-> "About the docs", additional_info |-> "",
       urls |-> seeds, max_pages |-> mp,
       category_rules |-> prof.category_rules,
       include_patterns |-> prof.include_patterns,
       exclude_patterns |-> prof.exclude_patterns] :
         seeds \in SeedLists, mp \in 0..MaxGenPages, prof \in ConfigProfiles }

(***************************************************************************)
(* Generator: discover_pages and _simple_link_discovery.                   *)
(***************************************************************************)
\* for link in links: stop at max_pages, keep the valid URLs
RECURSIVE CollectLinks(_, _, _, _, _)
CollectLinks(links, discovered_urls, base_url, max_pages, cfg) ==
    IF links = <<>> \/ Len(discovered_urls) >= max_pages THEN discovered_urls
    ELSE CollectLinks(Tail(links),
                      IF IsValidUrl(Head(links), base_url,
                                    ConfigGet(cfg, "include_patterns", <<>>),
                                    ConfigGet(cfg, "exclude_patterns", <<>>))
                      THEN Append(discovered_urls, Head(links))
                      ELSE discovered_urls,
                      base_url, max_pages, cfg)

\* _simple_link_discovery(base_url, max_pages), given the fetched body
SimpleLinkDiscovery(base_url, max_pages, html_content, cfg) ==
    LET found == IF html_content # EmptyDoc
                 THEN CollectLinks(html_content.hrefs, <<>>, base_url, max_pages, cfg)
                 ELSE <<>>
    IN  IF found = <<>> THEN <<base_url>> ELSE found

UrlsOf(discovered) == {discovered[i].url : i \in 1..Len(discovered)}

\* a mutation: no test against the URLs already discovered
RECURSIVE AddDiscoveredNoDedup(_, _, _)
AddDiscoveredNoDedup(discovered_urls, discovered, max_pages) ==
    IF discovered_urls = <<>> \/ Len(discovered) >= max_pages THEN discovered
    ELSE AddDiscoveredNoDedup(Tail(discovered_urls),
                       Append(discovered, [url |-> Head(discovered_urls),
                                           source |-> "link_discovery"]),
                       max_pages)

\* a mutation: a new URL is put before the URLs already discovered
RECURSIVE AddDiscoveredAtFront(_, _, _)
AddDiscoveredAtFront(discovered_urls, discovered, max_pages) ==
    IF discovered_urls = <<>> \/ Len(discovered) >= max_pages THEN discovered
    ELSE AddDiscoveredAtFront(Tail(discovered_urls),
                       IF Head(discovered_urls) \notin UrlsOf(discovered)
                       THEN <<[url |-> Head(discovered_urls), source |-> "link_discovery"]>>
                            \o discovered
                       ELSE discovered,
                       max_pages)

\* for url in discovered_urls: stop at max_pages, append the URLs not yet discovered
RECURSIVE AddDiscovered(_, _, _)
AddDiscovered(discovered_urls, discovered, max_pages) ==
    IF discovered_urls = <<>> \/ Len(discovered) >= max_pages THEN discovered
    ELSE AddDiscovered(Tail(discovered_urls),
                       IF Head(discovered_urls) \notin UrlsOf(discovered)
                       THEN Append(discovered, [url |-> Head(discovered_urls),
                                                source |-> "link_discovery"])
                       ELSE discovered,
                       max_pages)

\* for base_url in base_urls: discover, put the base URL first if missing, add
RECURSIVE DiscoverFrom(_, _, _, _)
DiscoverFrom(base_urls, contents, discovered, cfg) ==
    IF base_urls = <<>> THEN discovered
    ELSE LET base_url == Head(base_urls)
             max_pages == ConfigGet(cfg, "max_pages", DefaultMaxPages)
             found == SimpleLinkDiscovery(base_url, max_pages, Head(contents), cfg)
             discovered_urls == IF base_url \notin Range(found)
                                THEN <<base_url>> \o found ELSE found
         IN  DiscoverFrom(Tail(base_urls), Tail(contents),
                          AddDiscovered(discovered_urls, discovered, max_pages), cfg)

(***************************************************************************)
(* Generator: the state machine of one instance driven by run().           *)
(***************************************************************************)
\* __init__(config)
GeneratorInit(cfgs, runs) ==
    /\ config \in cfgs
    /\ pages_data = <<>>
    /\ discovered_pages = <<>>
    /\ stage = "idle"
    /\ proc = NoProc
    /\ files = NoFiles
    /\ getLog = <<>>
    /\ budget = runs

\* run() is called; self.config['name'] in its first line raises KeyError
\* when the configuration has no name
Run ==
    /\ stage = "idle" /\ ~proc.active /\ budget > 0
    /\ budget' = budget - 1
    /\ stage' = IF "name" \in config.keys THEN "discover" ELSE "KeyError"
    /\ UNCHANGED <<config, pages_data, discovered_pages, proc, files, getLog>>
    /\ UNCHANGED <<tvars, fvars>>

\* discover_pages(): one GET per seed URL
DiscoverPages ==
    /\ stage = "discover"
    /\ LET base_urls == ConfigGet(config, "urls", <<>>)
       IN  \E outs \in [1..Len(base_urls) -> Outcomes] :
              /\ discovered_pages' =
                    DiscoverFrom(base_urls,
                                 [i \in 1..Len(base_urls) |->
                                     GetPageContent(base_urls[i], outs[i])],
                                 <<>>, config)
              /\ getLog' = getLog \o [i \in 1..Len(base_urls) |->
                                         <<"discover", base_urls[i], outs[i]>>]
    /\ stage' = "process"
    /\ UNCHANGED <<config, pages_data, proc, files, budget>>
    /\ UNCHANGED <<tvars, fvars>>

\* process_pages(discovered_pages) is entered
ProcessPages ==
    /\ stage = "process" /\ ~proc.active
    /\ proc' = [active |-> TRUE, list |-> discovered_pages, i |-> 1]
    /\ UNCHANGED <<config, pages_data, discovered_pages, stage, files, getLog, budget>>
    /\ UNCHANGED <<tvars, fvars>>

\* the record process_pages appends for a fetched page
NewPageRecord(page_info, html_content, cfg) ==
    LET processed == ProcessContent(html_content, page_info.url)
    IN  [url |-> page_info.url, title |-> processed.title,
         description |-> processed.description, content |-> processed.main_content,
         category |-> CategorizePage(processed, ConfigGet(cfg, "category_rules", <<>>)),
         source |-> page_info.source]

\* a mutation: a page whose fetch gave nothing ends the loop
ProcessPageAbortOnFailure ==
    /\ proc.active /\ proc.i <= Len(proc.list)
    /\ \E outcome \in Outcomes :
          LET page_info == proc.list[proc.i]
              html_content == GetPageContent(page_info.url, outcome)
          IN  /\ getLog' = Append(getLog, <<"process", page_info.url, outcome>>)
              /\ pages_data' = IF html_content # EmptyDoc
                               THEN Append(pages_data,
                                           NewPageRecord(page_info, html_content, config))
                               ELSE pages_data
              /\ proc' = [proc EXCEPT !.i = IF html_content # EmptyDoc
                                            THEN proc.i + 1 ELSE Len(proc.list) + 1]
    /\ UNCHANGED <<config, discovered_pages, stage, files, budget>>
    /\ UNCHANGED <<tvars, fvars>>

\* one pass of the loop of process_pages: fetch, and if there is content
\* process, categorize and append
ProcessPage ==
    /\ proc.active /\ proc.i <= Len(proc.list)
    /\ \E outcome \in Outcomes :
          LET page_info == proc.list[proc.i]
              html_content == GetPageContent(page_info.url, outcome)
          IN  /\ getLog' = Append(getLog, <<"process", page_info.url, outcome>>)
              /\ pages_data' = IF html_content # EmptyDoc
                               THEN Append(pages_data,
                                           NewPageRecord(page_info, html_content, config))
                               ELSE pages_data
    /\ proc' = [proc EXCEPT !.i = proc.i + 1]
    /\ UNCHANGED <<config, discovered_pages, stage, files, budget>>
    /\ UNCHANGED <<tvars, fvars>>

\* process_pages returns
ProcessPagesReturn ==
    /\ proc.active /\ proc.i > Len(proc.list)
    /\ proc' = NoProc
    /\ stage' = IF stage = "process" THEN "llms" ELSE stage
    /\ UNCHANGED <<config, pages_data, discovered_pages, files, getLog, budget>>
    /\ UNCHANGED <<tvars, fvars>>

(***************************************************************************)
(* Generator: the rendering methods as steps of run() or direct calls.     *)
(***************************************************************************)
\* a method is called directly, outside run(), once the caller's runs are made
DirectCall == stage = "idle" /\ budget = 0 /\ ~proc.active

\* the lines written before self.config[...] raises KeyError in a header
PartialHeader(cfg, kind) ==
    IF "name" \in cfg.keys /\ kind = "h1"
    THEN << Line("h1", cfg.name, <<>>, <<>>, <<>>) >> ELSE <<>>

HasHeaderKeys(cfg) == {"name", "description"} \subseteq cfg.keys

\* generate_llms_txt(output_dir / "llms.txt")
GenerateLlmsTxt ==
    /\ stage = "llms" \/ DirectCall
    /\ files' = [files EXCEPT !["llms.txt"] =
                    IF HasHeaderKeys(config) THEN LlmsTxt(config, pages_data)
                    ELSE PartialHeader(config, "h1")]
    /\ stage' = IF stage # "llms" THEN stage
                ELSE IF HasHeaderKeys(config) THEN "full" ELSE "KeyError"
    /\ UNCHANGED <<config, pages_data, discovered_pages, proc, getLog, budget>>
    /\ UNCHANGED <<tvars, fvars>>

\* generate_llms_full_txt(output_dir / "llms-full.txt")
GenerateLlmsFullTxt ==
    /\ stage = "full" \/ DirectCall
    /\ files' = [files EXCEPT !["llms-full.txt"] =
                    IF HasHeaderKeys(config) THEN LlmsFullTxt(config, pages_data)
                    ELSE PartialHeader(config, "h1")]
    /\ stage' = IF stage # "full" THEN stage
                ELSE IF HasHeaderKeys(config) THEN "save" ELSE "KeyError"
    /\ UNCHANGED <<config, pages_data, discovered_pages, proc, getLog, budget>>
    /\ UNCHANGED <<tvars, fvars>>

\* generate_llms_ctx_files(): both context files
GenerateLlmsCtxFiles ==
    /\ DirectCall
    /\ files' = IF HasHeaderKeys(config)
                THEN [files EXCEPT !["llms-ctx.txt"] = CtxFile(config, pages_data, FALSE),
                                   !["llms-ctx-full.txt"] = CtxFile(config, pages_data, TRUE)]
                ELSE [files EXCEPT !["llms-ctx.txt"] = PartialHeader(config, "project")]
    /\ UNCHANGED <<config, pages_data, discovered_pages, stage, proc, getLog, budget>>
    /\ UNCHANGED <<tvars, fvars>>

\* save_data(output_dir / "documentation_data.json"); as the last step of run(), run() returns
SaveData ==
    /\ stage = "save" \/ DirectCall
    /\ files' = [files EXCEPT !["documentation_data.json"] = DataJson(pages_data)]
    /\ stage' = IF stage = "save" THEN "idle" ELSE stage
    /\ UNCHANGED <<config, pages_data, discovered_pages, proc, getLog, budget>>
    /\ UNCHANGED <<tvars, fvars>>

(***************************************************************************)
(* The renderer on its own: any page-data store of at most MaxStore        *)
(* records, the rendering methods called in any order.                     *)
(***************************************************************************)
MaxStore == 3

PageRecord(url, title, description, content, category) ==
    [url |-> url, title |-> title, description |-> description, content |-> content,
     category |-> category, source |-> "link_discovery"]

RenderUrlX == <<"https", "://", "example.com">> \o <<"/", "x">>
RenderUrlY == <<"https", "://", "example.com">> \o <<"/", "y", "y">>

RenderRecords ==
    { PageRecord(RenderUrlY, <<"A", "b">>, "about ab", "c1", <<"A", "P", "I">>),
      PageRecord(RenderUrlX, <<"A", "b">>, "", "c2", <<"A", "P", "I">>),
      PageRecord(RenderUrlX, <<"B">>, "", "c3", <<"A", "P", "I">>),
      PageRecord(RenderUrlY, <<"a">>, "about a", "c4", <<"A", "P", "I">>),
      PageRecord(RenderUrlX, <<"B">>, "about b", "c5", Other),
      PageRecord(RenderUrlY, <<"A">>, "", "c6", Other),
      PageRecord(RenderUrlX, <<"A", "b">>, "", "c7", <<"Z", "e", "d">>),
      PageRecord(RenderUrlY, <<"B">>, "", "c8", <<"a", "p", "i">>) }

RenderStores == UNION { [1..n -> RenderRecords] : n \in 0..MaxStore }

RenderConfigs ==
    { [keys |-> {"name", "description"}, name |-> "Example Docs",
       description |-> "About the docs", additional_info |-> ""],
      [keys |-> {"name", "description", "additional_info"}, name |-> "Example Docs",
       description |-> "About the docs", additional_info |-> "More"] }

RenderInit ==
    /\ config \in RenderConfigs
    /\ pages_data \in RenderStores
    /\ discovered_pages = <<>>
    /\ stage = "idle"
    /\ proc = NoProc
    /\ files = NoFiles
    /\ getLog = <<>>
    /\ budget = 0

InitRender == TraverserUnused /\ RenderInit /\ NoFunction

NextRender ==
    \/ GenerateLlmsTxt
    \/ GenerateLlmsFullTxt
    \/ GenerateLlmsCtxFiles
    \/ SaveData

SpecRender == InitRender /\ [][NextRender]_vars

(***************************************************************************)
(* Claims about the renderer.                                              *)
(***************************************************************************)
\* the entries an artifact lists, in order: <<section heading, title, url, text>>
\* for every line of kind itemKind, under the last line of kind headKind before it
RECURSIVE Listing(_, _, _, _)
Listing(lines, headKind, itemKind, heading) ==
    IF lines = <<>> THEN <<>>
    ELSE IF Head(lines).kind = headKind
         THEN Listing(Tail(lines), headKind, itemKind, Head(lines).heading)
    ELSE IF Head(lines).kind = itemKind
         THEN << <<heading, Head(lines).title, Head(lines).url, Head(lines).text>> >>
              \o Listing(Tail(lines), headKind, itemKind, heading)
    ELSE Listing(Tail(lines), headKind, itemKind, heading)

\* the section headings of an artifact, in order
SectionHeadings(lines, headKind) ==
    LET IsHead(l) == l.kind = headKind
        heads == SelectSeq(lines, IsHead)
    IN  [i \in 1..Len(heads) |-> heads[i].heading]

Count(seq, x) == Cardinality({i \in 1..Len(seq) : seq[i] = x})

StoreCategories == {pages_data[i].category : i \in 1..Len(pages_data)}

\* C9: llms.txt has one H2 section per category of the store, in ascending
\* order of category name ("Other" headed "Optional"), and in each section one
\* item per record of the category, in ascending order of title; every record
\* of the store is listed exactly once.
C9_IndexForm ==
    files["llms.txt"] # <<>> =>
        LET heads == SectionHeadings(files["llms.txt"], "h2")
            items == Listing(files["llms.txt"], "h2", "item", <<"none">>)
            asListed == [i \in 1..Len(pages_data) |->
                            <<Heading(pages_data[i].category), pages_data[i].title,
                              pages_data[i].url, pages_data[i].description>>]
        IN  /\ Len(heads) = Cardinality(StoreCategories)
            /\ \A k \in 1..Len(heads) :
                  \E c \in StoreCategories :
                      /\ heads[k] = Heading(c)
                      /\ \A l \in 1..(k - 1) :
                            \E b \in StoreCategories :
                                heads[l] = Heading(b) /\ StrLess(b, c)
            /\ Len(items) = Len(pages_data)
            /\ \A i \in 1..Len(items) : Count(items, items[i]) = Count(asListed, items[i])
            /\ \A i, j \in 1..Len(items) :
                  (i < j /\ items[i][1] = items[j][1]) => ~StrLess(items[j][2], items[i][2])

\* three records, two categories, "Other" among them, a category whose
\* records are stored in another order than their titles'
C9_Witness ==
    /\ files["llms.txt"] # <<>>
    /\ Len(pages_data) = 3
    /\ Other \in StoreCategories
    /\ \E i, j \in 1..Len(pages_data) :
          /\ i < j /\ pages_data[i].category = pages_data[j].category
          /\ StrLess(pages_data[j].title, pages_data[i].title)
    /\ \E i, j \in 1..Len(pages_data) :
          i < j /\ StrLess(pages_data[j].category, pages_data[i].category)

\* the <<section, title, url>> sequence of an artifact
Entries(lines, headKind, itemKind) ==
    LET l == Listing(lines, headKind, itemKind, <<"none">>)
    IN  [i \in 1..Len(l) |-> <<Heading(l[i][1]), l[i][2], l[i][3]>>]

NotOptional(e) == e[1] # Heading(Other)

\* C10: the full form and the full context form list the (category, page)
\* sequence of the index form; the default context form lists that sequence
\* without the pages of "Other" and without the "Other" section.
C10_SameSequence ==
    (\A f \in FileNames \ {"documentation_data.json"} : files[f] # <<>>) =>
        LET index == Entries(files["llms.txt"], "h2", "item")
            indexHeads == SectionHeadings(files["llms.txt"], "h2")
            ctxHeads == SectionHeadings(files["llms-ctx.txt"], "section")
            ctxFullHeads == SectionHeadings(files["llms-ctx-full.txt"], "section")
            IsNotOther(h) == h # Other
            IsNotOptional(h) == h # Heading(Other)
        IN  /\ Entries(files["llms-full.txt"], "h2", "item") = index
            /\ SectionHeadings(files["llms-full.txt"], "h2") = indexHeads
            /\ Entries(files["llms-ctx-full.txt"], "section", "page") = index
            /\ [i \in 1..Len(ctxFullHeads) |-> Heading(ctxFullHeads[i])] = indexHeads
            /\ Entries(files["llms-ctx.txt"], "section", "page") = SelectSeq(index, NotOptional)
            /\ ctxHeads = SelectSeq(ctxFullHeads, IsNotOther)
            /\ [i \in 1..Len(ctxHeads) |-> Heading(ctxHeads[i])]
                  = SelectSeq(indexHeads, IsNotOptional)

\* all four artifacts written from a store with "Other" and another category
\* after it, and records stored in another order than they are listed
C10_Witness ==
    /\ \A f \in FileNames \ {"documentation_data.json"} : files[f] # <<>>
    /\ Len(pages_data) = 3
    /\ \E i, j \in 1..Len(pages_data) :
          /\ pages_data[i].category = Other
          /\ StrLess(Other, pages_data[j].category)
    /\ \E i, j \in 1..Len(pages_data) :
          /\ i < j /\ pages_data[i].category = pages_data[j].category
          /\ StrLess(pages_data[j].title, pages_data[i].title)

(***************************************************************************)
(* The pipeline: one generator instance, run() called once, the context    *)
(* files generated by a direct call afterwards.                            *)
(***************************************************************************)
InitGen == TraverserUnused /\ GeneratorInit(GenConfigs, 1) /\ NoFunction

NextGen ==
    \/ Run
    \/ DiscoverPages
    \/ ProcessPages
    \/ ProcessPage
    \/ ProcessPagesReturn
    \/ GenerateLlmsTxt
    \/ GenerateLlmsFullTxt
    \/ SaveData
    \/ GenerateLlmsCtxFiles

SpecGen == InitGen /\ [][NextGen]_vars

(***************************************************************************)
(* Claims about discover_pages and process_pages.                          *)
(***************************************************************************)
\* the GETs of one phase of run(), in order
PhaseLog(phase) ==
    LET InPhase(e) == e[1] = phase
    IN  SelectSeq(getLog, InPhase)

ProcessedAll == stage \in {"llms", "full", "save"} \/ (stage = "idle" /\ budget = 0)

RecordedUrls == {pages_data[i].url : i \in 1..Len(pages_data)}

ListedUrls(f) ==
    LET items == Listing(files[f], "h2", "item", <<"none">>)
    IN  {items[i][3] : i \in 1..Len(items)}

\* process_pages fetches every discovered URL in turn whatever the earlier
\* fetches gave; a URL whose fetch is not in succeeded adds no record; a URL
\* whose fetch is in succeeded has a record, listed in the written artifacts
BatchSurvives(succeeded) ==
    LET log == PhaseLog("process")
    IN  /\ proc.active => Len(log) = proc.i - 1
        /\ ProcessedAll => Len(log) = Len(discovered_pages)
        /\ \A k \in 1..Len(log) :
              /\ log[k][2] = discovered_pages[k].url
              /\ log[k][3] \notin succeeded => log[k][2] \notin RecordedUrls
              /\ log[k][3] \in succeeded =>
                    /\ log[k][2] \in RecordedUrls
                    /\ \A f \in {"llms.txt", "llms-full.txt"} :
                          files[f] # <<>> => log[k][2] \in ListedUrls(f)

\* C5, as claimed: a fetch failure does not abort process_pages: the failed
\* URL adds no record, and every other discovered URL whose fetch succeeds (a
\* 2xx response, no exception) is processed, appended to the store and listed
\* in the rendered output.
C5_EverySuccessfulFetchRecorded == BatchSurvives({"ok", "empty"})

\* C5, amended: a fetch failure does not abort process_pages: a URL whose fetch
\* fails or returns an empty body adds no record, and every other discovered
\* URL, whose fetch returns a non-empty body, is processed, appended to the
\* store and listed in the rendered output.
C5_EveryFetchedBodyRecorded == BatchSurvives({"ok"})

\* a finished run of three discovered URLs, the fetch of the second failed,
\* the first and the third recorded and listed
C5_Witness ==
    LET log == PhaseLog("process")
    IN  /\ stage = "idle" /\ budget = 0
        /\ files["llms-full.txt"] # <<>>
        /\ Len(log) = 3
        /\ log[1][3] = "ok" /\ log[2][3] = "error" /\ log[3][3] = "ok"
        /\ Len(pages_data) = 2
        /\ ListedUrls("llms.txt") = {log[1][2], log[3][2]}

\* C6: the list discover_pages returns has no URL string twice (strings
\* compared as they are: "https://example.com" and "https://example.com/" are
\* two URLs) and has at most max_pages entries.
C6_UniqueWithinCap ==
    /\ NoDuplicates([i \in 1..Len(discovered_pages) |-> discovered_pages[i].url])
    /\ Len(discovered_pages) <= ConfigGet(config, "max_pages", DefaultMaxPages)

\* two seeds that link to each other, both fetched, the first repeating a
\* link; the list is full at max_pages and holds the seed with and without
\* its trailing slash
C6_Witness ==
    LET log == PhaseLog("discover")
    IN  /\ stage = "process"
        /\ Len(log) = 2 /\ log[1][3] = "ok" /\ log[2][3] = "ok"
        /\ log[1][2] = gSeed
        /\ "max_pages" \in config.keys
        /\ Len(discovered_pages) = config.max_pages
        /\ {gSeed, gHome} \subseteq UrlsOf(discovered_pages)

(***************************************************************************)
(* Claims about run().                                                     *)
(***************************************************************************)
\* run() has returned and nothing was called since on the files it leaves
RunReturned == stage = "idle" /\ budget = 0 /\ PhaseLog("discover") # <<>>

\* C11, as claimed: after run() completes, all five artifacts have been
\* written: llms.txt, llms-full.txt, llms-ctx.txt, llms-ctx-full.txt and
\* documentation_data.json, each from the store as process_pages left it.
C11_FiveArtifactsWritten ==
    RunReturned =>
        /\ \A f \in FileNames : files[f] # <<>>
        /\ files["llms.txt"] = LlmsTxt(config, pages_data)
        /\ files["llms-full.txt"] = LlmsFullTxt(config, pages_data)
        /\ files["llms-ctx.txt"] = CtxFile(config, pages_data, FALSE)
        /\ files["llms-ctx-full.txt"] = CtxFile(config, pages_data, TRUE)
        /\ files["documentation_data.json"] = DataJson(pages_data)

\* the end-to-end example: one seed page linking to /api/foo and /guide/bar,
\* rules /api/ -> API and /guide/ -> Guides, max_pages = 3, every fetch
\* returning its page
EndToEndExample ==
    /\ config.urls = <<gStart>>
    /\ "max_pages" \in config.keys /\ config.max_pages = 3
    /\ "category_rules" \in config.keys /\ config.category_rules = RulesApiGuides
    /\ "exclude_patterns" \notin config.keys
    /\ \A k \in 1..Len(getLog) : getLog[k][3] = "ok"

\* C12: in the end-to-end example a run discovers and processes exactly the
\* seed page, /api/foo and /guide/bar, and llms.txt is the H1 line, the
\* blockquote, "## API" with Foo API, "## Guides" with Bar Guide, "## Optional"
\* with the seed page, in this order.
C12_EndToEnd ==
    EndToEndExample =>
        /\ PhaseLog("discover") # <<>> =>
              [i \in 1..Len(discovered_pages) |-> discovered_pages[i].url]
                 = <<gStart, gApiFoo, gGuideBar>>
        /\ ProcessedAll =>
              /\ [i \in 1..Len(PhaseLog("process")) |-> PhaseLog("process")[i][2]]
                    = <<gStart, gApiFoo, gGuideBar>>
              /\ [i \in 1..Len(pages_data) |-> pages_data[i].url]
                    = <<gStart, gApiFoo, gGuideBar>>
        /\ files["llms.txt"] # <<>> =>
              files["llms.txt"] =
                 << Line("h1", "Example Docs", <<>>, <<>>, <<>>),
                    Line("quote", "About the docs", <<>>, <<>>, <<>>),
                    Line("h2", "", <<"A", "P", "I">>, <<>>, <<>>),
                    Line("item", "The foo calls", <<>>, <<"F", "o", "o", " ", "A", "P", "I">>, gApiFoo),
                    Line("h2", "", <<"G", "u", "i", "d", "e", "s">>, <<>>, <<>>),
                    Line("item", "", <<>>, <<"B", "a", "r", " ", "G", "u", "i", "d", "e">>, gGuideBar),
                    Line("h2", "", <<"O", "p", "t", "i", "o", "n", "a", "l">>, <<>>, <<>>),
                    Line("item", "Where to begin", <<>>, <<"S", "t", "a", "r", "t">>, gStart) >>

\* the run of the example has returned with its three records
C12_Witness ==
    /\ EndToEndExample
    /\ RunReturned
    /\ Len(pages_data) = 3
    /\ Len(files["llms.txt"]) = 8

(***************************************************************************)
(* Claims about depth, order and fan-out of a traversal run.               *)
(***************************************************************************)
\* the entries a step of run t appended to its queue
Enqueued(t) == SubSeq(queue'[t], Len(queue[t]) + 1, Len(queue'[t]))

\* run t is in its loop and this step is the handling of its fetched page
HandlesPage(t) == pc[t] = "fetch" /\ pc'[t] = "sleep"

C13_State ==
    \A t \in tasks :
        pc[t] # "idle" =>
            /\ \A k \in 1..Len(queue[t]) :
                  queue[t][k][2] >= 0 /\ queue[t][k][2] <= call[t].max_depth
            /\ \A k \in 1..Len(pages[t]) :
                  pages[t][k].depth >= 0 /\ pages[t][k].depth <= call[t].max_depth
            /\ \A k \in 1..Len(returned[t]) :
                  returned[t][k].depth >= 0
            /\ pc[t] = "done" =>
                  \A k \in 1..Len(returned[t]) : returned[t][k].depth <= call[t].max_depth

C13_Step ==
    \A t \in tasks :
        /\ (pc[t] \in {"idle", "done"} /\ pc'[t] = "loop") =>
              queue'[t] = << <<call'[t].base, 0>> >>
        /\ HandlesPage(t) =>
              /\ Len(queue'[t]) >= Len(queue[t])
              /\ SubSeq(queue'[t], 1, Len(queue[t])) = queue[t]
              /\ \A k \in 1..Len(Enqueued(t)) : Enqueued(t)[k][2] = cur[t][2] + 1
              /\ cur[t][2] >= call[t].max_depth => Enqueued(t) = <<>>

\* C13: every queue entry and every returned page has a depth between 0 and
\* max_depth; the start URL is enqueued at depth 0; a fetched page enqueues
\* links only when its depth is below max_depth, each at its depth + 1.
C13_DepthBound == [](C13_State) /\ [][C13_Step]_vars

\* a run with max_depth = 2 holding pages of depth 0, 1 and 2, the last one
\* having links and enqueuing none
C13_Witness ==
    \E t \in tasks :
        /\ call[t].max_depth = 2
        /\ pc[t] = "sleep"
        /\ Len(pages[t]) = 3
        /\ pages[t][1].depth = 0 /\ pages[t][2].depth = 1 /\ pages[t][3].depth = 2
        /\ Sites[site][pages[t][3].url] # <<>>
        /\ queue[t] = <<>>

NonDecreasing(depths) == \A i, j \in 1..Len(depths) : i < j => depths[i] <= depths[j]

QueueDepths(t) == [k \in 1..Len(queue[t]) |-> queue[t][k][2]]

PageDepths(ps) == [k \in 1..Len(ps) |-> ps[k].depth]

C14_State ==
    \A t \in tasks :
        pc[t] # "idle" =>
            /\ NonDecreasing(QueueDepths(t))
            /\ NonDecreasing(PageDepths(pages[t]))
            /\ pc[t] = "done" => NonDecreasing(PageDepths(returned[t]))
            /\ \A k \in 1..Len(queue[t]) :
                  /\ cur[t] # <<>> => cur[t][2] <= queue[t][k][2]
                  /\ \A p \in 1..Len(pages[t]) : pages[t][p].depth <= queue[t][k][2]

C14_Step ==
    \A t \in tasks :
        /\ (pc[t] = "loop" /\ queue'[t] # queue[t]) =>
              /\ queue'[t] = Tail(queue[t])
              /\ pc'[t] = "fetch" => cur'[t] = Head(queue[t])
        /\ HandlesPage(t) =>
              /\ Len(queue'[t]) >= Len(queue[t])
              /\ SubSeq(queue'[t], 1, Len(queue[t])) = queue[t]

\* C14: a run fetches breadth first: entries leave the queue at its head and
\* enter at its tail, the depths of the pages of the result never decrease,
\* and while an entry of depth d waits in the queue no entry of a greater
\* depth is fetched.
C14_BreadthFirst == [](C14_State) /\ [][C14_Step]_vars

\* a run about to pop, its queue holding entries of depth 1 before entries of
\* depth 2, pages of depth 0 and 1 fetched
C14_Witness ==
    \E t \in tasks :
        /\ pc[t] = "loop"
        /\ Len(queue[t]) >= 2
        /\ queue[t][1][2] = 1 /\ queue[t][Len(queue[t])][2] = 2
        /\ PageDepths(pages[t]) = <<0, 1>>

\* the fan-out cap and the interest patterns of a mode of traverse_website
FanOutCap(mode) == CASE mode = "research" -> 8 [] mode = "map" -> 12 [] OTHER -> 10

InterestPatterns(mode) ==
    CASE mode = "research" -> research_patterns
      [] mode = "map" -> nav_patterns
      [] OTHER -> doc_patterns

\* the positions on a page of the links a run in this mode enqueues: among the
\* first FanOutCap(mode) links matching the mode's patterns, the unvisited ones
EnqueuedPositions(hrefs, mode, visited) ==
    {i \in 1..Len(hrefs) :
        /\ MatchesAny(InterestPatterns(mode), hrefs[i])
        /\ Cardinality({j \in 1..i : MatchesAny(InterestPatterns(mode), hrefs[j])})
              <= FanOutCap(mode)
        /\ hrefs[i] \notin visited}

C15_Step ==
    \A t \in tasks :
        (HandlesPage(t) /\ pages'[t] # pages[t]) =>
            LET hrefs == Sites[site][cur[t][1]]
                at == IF cur[t][2] < call[t].max_depth
                      THEN EnqueuedPositions(hrefs, call[t].mode, visited_urls)
                      ELSE {}
            IN  /\ Len(Enqueued(t)) <= FanOutCap(call[t].mode)
                /\ \A k \in 1..Len(Enqueued(t)) :
                      MatchesAny(InterestPatterns(call[t].mode), Enqueued(t)[k][1])
                /\ Len(Enqueued(t)) = Cardinality(at)
                /\ \A k \in 1..Len(Enqueued(t)) :
                      Enqueued(t)[k][1] =
                         hrefs[CHOOSE i \in at : Cardinality({j \in at : j <= i}) = k]

\* C15: the handling of one fetched page enqueues at most 10 links in docs
\* mode, 8 in research mode, 12 in map mode: the unvisited ones among the first
\* 10, 8 or 12 links of the page that match the mode's patterns, in page
\* order; a link matching no pattern of the mode is never enqueued.
C15_FanOutCap == [][C15_Step]_vars

\* a map-mode run has handled a seed page carrying 13 navigation links: 12
\* are enqueued, the thirteenth, unvisited, is not
C15_Witness ==
    \E t \in tasks :
        /\ site = "wide" /\ call[t].mode = "map" /\ call[t].max_depth >= 1
        /\ pc[t] = "sleep" /\ cur[t] = <<uRoot, 0>>
        /\ Len(queue[t]) = 12
        /\ uNewsV \notin visited_urls
        /\ \A k \in 1..Len(queue[t]) : queue[t][k][1] # uNewsV

(***************************************************************************)
(* Claims about the order and the number of the records of a run.          *)
(***************************************************************************)
\* the URLs seed number i offers to discover_pages, given what its GET returned
SeedCandidates(i) ==
    LET log == PhaseLog("discover")
        base_url == config.urls[i]
        found == SimpleLinkDiscovery(base_url,
                                     ConfigGet(config, "max_pages", DefaultMaxPages),
                                     GetPageContent(base_url, log[i][3]), config)
    IN  IF base_url \in Range(found) THEN found ELSE <<base_url>> \o found

\* the candidates of every seed
AllCandidates == [i \in 1..Len(config.urls) |-> SeedCandidates(i)]

\* the first seed that offers the URL
FirstSeed(cands, url) ==
    CHOOSE i \in DOMAIN cands :
        /\ url \in Range(cands[i])
        /\ \A j \in 1..(i - 1) : url \notin Range(cands[j])

\* the first position of the URL among the candidates of a seed
FirstPosition(cands, url, i) ==
    CHOOSE k \in 1..Len(cands[i]) :
        /\ cands[i][k] = url
        /\ \A l \in 1..(k - 1) : cands[i][l] # url

OkUrls(log) ==
    LET Ok(e) == e[3] = "ok"
        oks == SelectSeq(log, Ok)
    IN  [k \in 1..Len(oks) |-> oks[k][2]]

\* C16: the discovered list holds the URLs first offered by seed i before
\* those first offered by any later seed, each seed's URLs in the order of its
\* page; process_pages fetches the discovered URLs in list order and appends
\* the records in that order.
C16_SeedOrder ==
    PhaseLog("discover") # <<>> =>
        LET cands == AllCandidates
            offered == UNION {Range(cands[i]) : i \in DOMAIN cands}
            seed == [u \in offered |-> FirstSeed(cands, u)]
            place == [u \in offered |-> FirstPosition(cands, u, seed[u])]
            log == PhaseLog("process")
        IN  /\ UrlsOf(discovered_pages) \subseteq offered
            /\ \A a, b \in 1..Len(discovered_pages) :
                  a < b =>
                     LET ua == discovered_pages[a].url
                         ub == discovered_pages[b].url
                     IN  /\ seed[ua] <= seed[ub]
                         /\ seed[ua] = seed[ub] => place[ua] < place[ub]
            /\ \A k \in 1..Len(log) :
                  k <= Len(discovered_pages) /\ log[k][2] = discovered_pages[k].url
            /\ [k \in 1..Len(pages_data) |-> pages_data[k].url] = OkUrls(log)

\* two seeds, the second offering the first seed again and two URLs of its
\* own; all six discovered URLs fetched and recorded
C16_Witness ==
    /\ config.urls = <<gSeed, gDocs>>
    /\ ProcessedAll
    /\ Len(pages_data) = 6
    /\ LET cands == AllCandidates
       IN  /\ gSeed \in Range(cands[2])
           /\ FirstSeed(cands, discovered_pages[5].url) = 2
           /\ FirstSeed(cands, discovered_pages[6].url) = 2

(***************************************************************************)
(* One generator instance whose run() is called up to MaxRuns times.       *)
(***************************************************************************)
MaxRuns == 2

RerunConfigs ==
    {cfg \in GenConfigs :
        /\ cfg.urls = <<gStart>>
        /\ "max_pages" \in cfg.keys /\ cfg.max_pages <= 2
        /\ "category_rules" \notin cfg.keys}

InitRerun == TraverserUnused /\ GeneratorInit(RerunConfigs, MaxRuns) /\ NoFunction

NextRerun ==
    \/ Run
    \/ DiscoverPages
    \/ ProcessPages
    \/ ProcessPage
    \/ ProcessPagesReturn
    \/ GenerateLlmsTxt
    \/ GenerateLlmsFullTxt
    \/ SaveData
    \/ GenerateLlmsCtxFiles

SpecRerun == InitRerun /\ [][NextRerun]_vars

\* C17, as claimed: whatever calls were made on the instance, the store holds
\* at most one record per URL, and, once process_pages has returned, exactly
\* one for each discovered URL whose fetch returned content.
C17_OneRecordPerUrl ==
    /\ NoDuplicates([k \in 1..Len(pages_data) |-> pages_data[k].url])
    /\ (stage \in {"llms", "full", "save"} \/ (stage = "idle" /\ getLog # <<>>)) =>
          LET log == PhaseLog("process")
              last == SubSeq(log, Len(log) - Len(discovered_pages) + 1, Len(log))
          IN  \A k \in 1..Len(last) :
                 last[k][3] = "ok" =>
                    Cardinality({i \in 1..Len(pages_data) : pages_data[i].url = last[k][2]}) = 1

(***************************************************************************)
(* Sitemap Resolver: its validity filter.                                  *)
(***************************************************************************)
\* exclude_patterns of SitemapExtractor._is_valid_url
sitemap_exclude_patterns ==
    << <<"#">>, <<"m", "a", "i", "l", "t", "o", ":">>, <<"j", "a", "v", "a", "s", "c", "r", "i", "p", "t", ":">>, <<"t", "e", "l", ":">>, <<"f", "t", "p", ":">>,
       <<".", "p", "d", "f">>, <<".", "z", "i", "p">>, <<".", "e", "x", "e">>, <<".", "j", "p", "g">>, <<".", "j", "p", "e", "g">>, <<".", "p", "n", "g">>, <<".", "g", "i", "f">>,
       <<".", "c", "s", "s">>, <<".", "j", "s">>, <<".", "x", "m", "l">>, <<".", "j", "s", "o", "n">> >>

\* SitemapExtractor._is_valid_url(url, base_url)
SitemapIsValidUrl(url, base_url) ==
    IF UrlScheme(url) \notin {"http", "https"} THEN FALSE
    ELSE IF UrlNetloc(url) # UrlNetloc(base_url) THEN FALSE
    ELSE IF AnyPatternIn(sitemap_exclude_patterns, Lower(url)) THEN FALSE
    ELSE TRUE

\* the candidate URLs the two validators are compared on
ComparedPaths ==
    CandidatePaths \cup { <<"/", "l", "o", "g", "o", ".", "S", "V", "G">>, <<"/", "a", ".", "t", "a", "r">>, <<"/", "b", ".", "g", "z">>, <<"/", "s", "e", "t", "u", "p", ".", "e", "x", "e">>,
                          <<"/", "g", "o", "?", "u", "=", "f", "t", "p", ":", "y">> }

ComparedUrls ==
    { IF sch[2] = "://" THEN sch \o <<h>> \o path ELSE sch \o path :
        sch \in CandidateSchemes, h \in CandidateHosts, path \in ComparedPaths }

\* the inputs of the two validators are drawn
ComparedInit ==
    /\ arg \in [url : ComparedUrls, base_url : BaseUrls]
    /\ result = <<>>

\* both validators are applied to the drawn URL, the generator's with no
\* include and no exclude pattern configured
ApplyBothValidators ==
    /\ result = <<>>
    /\ result' = << SitemapIsValidUrl(arg.url, arg.base_url),
                    IsValidUrl(arg.url, arg.base_url, <<>>, <<>>) >>
    /\ UNCHANGED <<arg, tvars, gvars>>

InitValidators == TraverserUnused /\ NoGenerator /\ ComparedInit

NextValidators == ApplyBothValidators

SpecValidators == InitValidators /\ [][NextValidators]_vars

\* C19, as claimed: SitemapExtractor._is_valid_url accepts a URL exactly when
\* LLMsTxtGenerator._is_valid_url with no include and no exclude pattern
\* configured accepts it.
C19_SameFilter == result # <<>> => result[1] = result[2]

(***************************************************************************)
(* Sitemap Resolver: extract_urls_from_sitemap.  A web is a record: the    *)
(* documents a GET returns, by URL, and the URLs answering a HEAD with     *)
(* status 200.  A document has a content-type header, a body starting with *)
(* "<?xml" or not, and a body kind: "robots" (items: the lines as          *)
(* <<directive, value>>), "index" and "urlset" (sitemaps.org documents,    *)
(* items: the <loc> texts), "unqualified" (a sitemap without the           *)
(* sitemaps.org namespace), "malformed" (XML that does not parse) and      *)
(* "html" (items: the <a href> targets resolved by urljoin).               *)
(***************************************************************************)
SitemapDoc(content_type, decl, kind, items) ==
    [content_type |-> content_type, decl |-> decl, kind |-> kind, items |-> items]

\* urljoin(base_url, "/path")
UrlJoinPath(base_url, path) == SubSeq(base_url, 1, 3) \o path

common_paths ==
    << <<"/", "s", "i", "t", "e", "m", "a", "p", ".", "x", "m", "l">>, <<"/", "s", "i", "t", "e", "m", "a", "p", "_", "i", "n", "d", "e", "x", ".", "x", "m", "l">>, <<"/", "s", "i", "t", "e", "m", "a", "p", "/", "s", "i", "t", "e", "m", "a", "p", ".", "x", "m", "l">>,
       <<"/", "s", "i", "t", "e", "m", "a", "p", "s", "/", "s", "i", "t", "e", "m", "a", "p", ".", "x", "m", "l">>, <<"/", "s", "i", "t", "e", "m", "a", "p", "1", ".", "x", "m", "l">>, <<"/", "s", "i", "t", "e", "m", "a", "p", "_", "n", "e", "w", "s", ".", "x", "m", "l">>,
       <<"/", "s", "i", "t", "e", "m", "a", "p", "_", "p", "r", "o", "d", "u", "c", "t", "s", ".", "x", "m", "l">> >>

html_sitemap_paths ==
    << <<"/", "s", "i", "t", "e", "m", "a", "p">>, <<"/", "s", "i", "t", "e", "m", "a", "p", ".", "h", "t", "m", "l">>, <<"/", "s", "i", "t", "e", "m", "a", "p", ".", "h", "t", "m">>, <<"/", "s", "i", "t", "e", "-", "m", "a", "p">>,
       <<"/", "s", "i", "t", "e", "-", "m", "a", "p", ".", "h", "t", "m", "l">>, <<"/", "l", "i", "n", "k", "s">>, <<"/", "a", "l", "l", "-", "p", "a", "g", "e", "s">>, <<"/", "d", "i", "r", "e", "c", "t", "o", "r", "y">> >>

\* the depth of nested calls at which Python raises RecursionError
RecursionLimit == 4

\* session.get(url): the document, or nothing (an exception, a status other than 200)
SitemapFetch(web, failing, url) ==
    IF url \in DOMAIN web.docs /\ url \notin failing THEN <<web.docs[url]>> ELSE <<>>

\* _extract_from_robots_txt(base_url)
ExtractFromRobotsTxt(web, failing, base_url) ==
    LET got == SitemapFetch(web, failing, UrlJoinPath(base_url, <<"/", "r", "o", "b", "o", "t", "s", ".", "t", "x", "t">>))
        lines == IF got # <<>> /\ got[1].kind = "robots" THEN got[1].items ELSE <<>>
        IsSitemapLine(line) == Lower(line[1]) = <<"s", "i", "t", "e", "m", "a", "p">> /\ Strip(line[2]) # <<>>
        kept == SelectSeq(lines, IsSitemapLine)
    IN  [k \in 1..Len(kept) |-> Strip(kept[k][2])]

\* _try_common_sitemap_locations(base_url)
TryCommonSitemapLocations(web, base_url) ==
    LET candidates == [k \in 1..Len(common_paths) |-> UrlJoinPath(base_url, common_paths[k])]
        Answers(sitemap_url) == sitemap_url \in web.head_ok
    IN  SelectSeq(candidates, Answers)

\* _parse_html_sitemap(html_content, sitemap_url)
ParseHtmlSitemap(doc) ==
    LET IsHttp(full_url) ==
            Len(full_url) >= 2 /\ full_url[1] \in {"http", "https"} /\ full_url[2] = "://"
    IN  IF doc.kind = "html" THEN SelectSeq(doc.items, IsHttp) ELSE <<>>

\* "xml" in content_type, "html" in content_type
HasXml(content_type) == Contains(<<"x", "m", "l">>, Lower(content_type))

HasHtml(content_type) == Contains(<<"h", "t", "m", "l">>, Lower(content_type))

RECURSIVE ExtractUrlsFromSitemapUrl(_, _, _, _)

\* a mutation: the children after a child that cannot be fetched are dropped
RECURSIVE ResolveChildrenStopAtFailure(_, _, _, _)
ResolveChildrenStopAtFailure(web, failing, children, depth) ==
    IF children = <<>> THEN <<>>
    ELSE IF SitemapFetch(web, failing, Head(children)) = <<>> THEN <<>>
    ELSE ExtractUrlsFromSitemapUrl(web, failing, Head(children), depth + 1)
         \o ResolveChildrenStopAtFailure(web, failing, Tail(children), depth)

\* a mutation: only the first child of an index is resolved
ResolveFirstChildOnly(web, failing, children, depth) ==
    IF children = <<>> THEN <<>>
    ELSE ExtractUrlsFromSitemapUrl(web, failing, Head(children), depth + 1)

\* the loop over the <sitemap><loc> entries of an index
RECURSIVE ResolveChildren(_, _, _, _)
ResolveChildren(web, failing, children, depth) ==
    IF children = <<>> THEN <<>>
    ELSE ExtractUrlsFromSitemapUrl(web, failing, Head(children), depth + 1)
         \o ResolveChildren(web, failing, Tail(children), depth)

\* _parse_xml_sitemap(xml_content, sitemap_url)
ParseXmlSitemap(web, failing, doc, depth) ==
    IF doc.kind = "index" THEN ResolveChildren(web, failing, doc.items, depth)
    ELSE IF doc.kind = "urlset" THEN doc.items
    ELSE <<>>

\* _extract_urls_from_sitemap_url(sitemap_url), called at a nesting depth
ExtractUrlsFromSitemapUrl(web, failing, sitemap_url, depth) ==
    LET got == SitemapFetch(web, failing, sitemap_url)
    IN  IF depth > RecursionLimit \/ got = <<>> THEN <<>>
        ELSE IF HasXml(got[1].content_type) THEN ParseXmlSitemap(web, failing, got[1], depth)
        ELSE IF HasHtml(got[1].content_type) THEN ParseHtmlSitemap(got[1])
        ELSE IF got[1].decl THEN ParseXmlSitemap(web, failing, got[1], depth)
        ELSE ParseHtmlSitemap(got[1])

RECURSIVE ExtractAll(_, _, _)
ExtractAll(web, failing, sitemap_urls) ==
    IF sitemap_urls = <<>> THEN <<>>
    ELSE ExtractUrlsFromSitemapUrl(web, failing, Head(sitemap_urls), 1)
         \o ExtractAll(web, failing, Tail(sitemap_urls))

\* _find_html_sitemap(base_url)
RECURSIVE FindHtmlSitemapFrom(_, _, _, _)
FindHtmlSitemapFrom(web, failing, base_url, paths) ==
    IF paths = <<>> THEN <<>>
    ELSE LET got == SitemapFetch(web, failing, UrlJoinPath(base_url, Head(paths)))
         IN  (IF got # <<>> THEN ParseHtmlSitemap(got[1]) ELSE <<>>)
             \o FindHtmlSitemapFrom(web, failing, base_url, Tail(paths))

FindHtmlSitemap(web, failing, base_url) ==
    FindHtmlSitemapFrom(web, failing, base_url, html_sitemap_paths)

\* all_urls of extract_urls_from_sitemap
AllSitemapUrls(web, failing, base_url) ==
    ExtractAll(web, failing,
               ExtractFromRobotsTxt(web, failing, base_url)
               \o TryCommonSitemapLocations(web, base_url))
    \o FindHtmlSitemap(web, failing, base_url)

\* list(set(all_urls)): the elements once each, in an order the set decides
RECURSIVE Orderings(_)
Orderings(elements) ==
    IF elements = {} THEN {<<>>}
    ELSE UNION {{<<x>> \o rest : rest \in Orderings(elements \ {x})} : x \in elements}

ListsOfSet(all_urls) == Orderings(Range(all_urls))

\* [url for url in unique_urls if self._is_valid_url(url, base_url)]
FilterValid(unique_urls, base_url) ==
    LET Valid(url) == SitemapIsValidUrl(url, base_url)
    IN  SelectSeq(unique_urls, Valid)

(***************************************************************************)
(* Sitemap Resolver: the webs it is checked on.                            *)
(***************************************************************************)
smRobots == G(<<"/", "r", "o", "b", "o", "t", "s", ".", "t", "x", "t">>)
smMain == G(<<"/", "s", "i", "t", "e", "m", "a", "p", ".", "x", "m", "l">>)
smIndex == G(<<"/", "s", "i", "t", "e", "m", "a", "p", "_", "i", "n", "d", "e", "x", ".", "x", "m", "l">>)
smNested == G(<<"/", "s", "m", "/", "n", "e", "s", "t", "e", "d", ".", "x", "m", "l">>)
smChildA == G(<<"/", "s", "m", "/", "a", ".", "x", "m", "l">>)
smChildB == G(<<"/", "s", "m", "/", "b", ".", "x", "m", "l">>)
smBroken == G(<<"/", "s", "m", "/", "b", "r", "o", "k", "e", "n", ".", "x", "m", "l">>)
smPlain == G(<<"/", "s", "m", "/", "p", "l", "a", "i", "n", ".", "x", "m", "l">>)
smHtml == G(<<"/", "s", "i", "t", "e", "m", "a", "p", ".", "h", "t", "m", "l">>)
gMail == <<"mailto", ":", "a", "@", "example.com">>

ChildADoc == SitemapDoc(<<>>, TRUE, "urlset", <<gApiFoo, gGuideBar, gElsewhere>>)

ChildBDoc == SitemapDoc(<<"t", "e", "x", "t", "/", "x", "m", "l">>, TRUE, "urlset", <<gGuideBar, gDocs, gFile>>)

\* robots.txt names an index of a child and a nested index; the two children
\* share a URL
WebIndex ==
    [head_ok |-> {},
     docs |-> (smRobots :> SitemapDoc(<<"t", "e", "x", "t", "/", "p", "l", "a", "i", "n">>, FALSE, "robots",
                              << <<<<"U", "s", "e", "r", "-", "a", "g", "e", "n", "t">>, <<" ", "*">>>>,
                                 <<<<"S", "i", "t", "e", "m", "a", "p">>, <<" ">> \o smIndex>> >>)
               @@ smIndex :> SitemapDoc(<<"a", "p", "p", "l", "i", "c", "a", "t", "i", "o", "n", "/", "x", "m", "l">>, TRUE, "index",
                                        <<smChildA, smNested>>)
               @@ smNested :> SitemapDoc(<<"A", "p", "p", "l", "i", "c", "a", "t", "i", "o", "n", "/", "X", "M", "L">>, FALSE, "index",
                                         <<smChildB, smChildA>>)
               @@ smChildA :> ChildADoc
               @@ smChildB :> ChildBDoc)]

\* every kind of source: robots.txt, two common paths, an index with a
\* malformed child and a child without namespace, an HTML sitemap page
WebSources ==
    [head_ok |-> {smMain, smIndex},
     docs |-> (smRobots :> SitemapDoc(<<"t", "e", "x", "t", "/", "p", "l", "a", "i", "n">>, FALSE, "robots",
                              << <<<<"S", "I", "T", "E", "M", "A", "P">>, smMain>>, <<<<"S", "i", "t", "e", "m", "a", "p">>, <<" ">>>> >>)
               @@ smMain :> SitemapDoc(<<"a", "p", "p", "l", "i", "c", "a", "t", "i", "o", "n", "/", "x", "m", "l">>, TRUE, "urlset", <<gApiFoo>>)
               @@ smIndex :> SitemapDoc(<<"t", "e", "x", "t", "/", "x", "m", "l">>, TRUE, "index",
                                        <<smBroken, smChildB, smPlain>>)
               @@ smBroken :> SitemapDoc(<<"t", "e", "x", "t", "/", "x", "m", "l">>, TRUE, "malformed", <<gStart>>)
               @@ smPlain :> SitemapDoc(<<"t", "e", "x", "t", "/", "x", "m", "l">>, TRUE, "unqualified", <<gStart>>)
               @@ smChildB :> ChildBDoc
               @@ smHtml :> SitemapDoc(<<"t", "e", "x", "t", "/", "h", "t", "m", "l">>, FALSE, "html",
                                       <<gDocs, gElsewhere, gMail>>))]

\* an index that lists a child and itself
WebSelf ==
    [head_ok |-> {smMain},
     docs |-> (smMain :> SitemapDoc(<<"a", "p", "p", "l", "i", "c", "a", "t", "i", "o", "n", "/", "x", "m", "l">>, TRUE, "index",
                                    <<smChildA, smMain>>)
               @@ smChildA :> ChildADoc)]

\* two indexes that list each other, the second beside a child
WebMutual ==
    [head_ok |-> {smMain},
     docs |-> (smMain :> SitemapDoc(<<"t", "e", "x", "t", "/", "x", "m", "l">>, TRUE, "index", <<smNested>>)
               @@ smNested :> SitemapDoc(<<"t", "e", "x", "t", "/", "x", "m", "l">>, TRUE, "index",
                                         <<smChildB, smMain>>)
               @@ smChildB :> ChildBDoc)]

SitemapWebs == [index |-> WebIndex, sources |-> WebSources, self |-> WebSelf, mutual |-> WebMutual]

\* at most this many GET targets fail in one resolution
MaxFailing == 2

\* the inputs of the resolver are drawn: the web and the URLs whose GET fails
SitemapInit ==
    /\ \E name \in DOMAIN SitemapWebs :
          \E failing \in SUBSET (DOMAIN SitemapWebs[name].docs) :
             /\ Cardinality(failing) <= MaxFailing
             /\ arg = [base_url |-> gHome, web |-> name, failing |-> failing]
    /\ result = <<>>

\* extract_urls_from_sitemap(base_url)
ExtractUrlsFromSitemap ==
    /\ result = <<>>
    /\ \E unique_urls \in ListsOfSet(AllSitemapUrls(SitemapWebs[arg.web], arg.failing,
                                                    arg.base_url)) :
          result' = << FilterValid(unique_urls, arg.base_url) >>
    /\ UNCHANGED <<arg, tvars, gvars>>

InitSitemap == TraverserUnused /\ NoGenerator /\ SitemapInit

NextSitemap == ExtractUrlsFromSitemap

SpecSitemap == InitSitemap /\ [][NextSitemap]_vars

(***************************************************************************)
(* Claims about the Sitemap Resolver.                                      *)
(***************************************************************************)
\* the document a GET of the URL returns in the drawn web, <<>> if it fails
Got(url) == SitemapFetch(SitemapWebs[arg.web], arg.failing, url)

\* the resolver reads the document as XML
ReadAsXml(doc) == HasXml(doc.content_type) \/ (~HasHtml(doc.content_type) /\ doc.decl)

\* the child sitemaps a sitemap URL names: those of a fetched, parsed index
ChildrenOf(url) ==
    IF Got(url) # <<>> /\ ReadAsXml(Got(url)[1]) /\ Got(url)[1].kind = "index"
    THEN Range(Got(url)[1].items) ELSE {}

\* the page URLs a sitemap URL lists itself
LeavesOf(url) ==
    IF Got(url) = <<>> THEN {}
    ELSE IF ReadAsXml(Got(url)[1])
         THEN (IF Got(url)[1].kind = "urlset" THEN Range(Got(url)[1].items) ELSE {})
    ELSE Range(ParseHtmlSitemap(Got(url)[1]))

\* the sitemap URLs reachable from a set of sitemap URLs through indexes
RECURSIVE ReachableFrom(_)
ReachableFrom(roots) ==
    LET more == roots \cup UNION {ChildrenOf(u) : u \in roots}
    IN  IF more = roots THEN roots ELSE ReachableFrom(more)

\* the sitemap URLs robots.txt and the common paths give
RootSitemaps ==
    Range(ExtractFromRobotsTxt(SitemapWebs[arg.web], arg.failing, arg.base_url))
    \cup Range(TryCommonSitemapLocations(SitemapWebs[arg.web], arg.base_url))

\* the page URLs of the HTML sitemap pages that answer
HtmlSitemapLeaves ==
    UNION {IF Got(UrlJoinPath(arg.base_url, html_sitemap_paths[k])) # <<>>
           THEN Range(ParseHtmlSitemap(Got(UrlJoinPath(arg.base_url, html_sitemap_paths[k]))[1]))
           ELSE {} : k \in 1..Len(html_sitemap_paths)}

InScope(url) == SitemapIsValidUrl(url, arg.base_url)

\* C18: the result holds no URL twice, and for every sitemap index the
\* resolver reaches, every in-scope URL listed by a child of the index,
\* directly or through nested indexes, is in the result exactly once.
C18_IndexUnion ==
    result # <<>> =>
        /\ NoDuplicates(result[1])
        /\ \A index \in ReachableFrom(RootSitemaps) :
              \A child \in ReachableFrom(ChildrenOf(index)) :
                 \A url \in LeavesOf(child) :
                    InScope(url) => Count(result[1], url) = 1

\* the index named by robots.txt resolved with every GET answering: the
\* three in-scope URLs of its child and of the child of its nested index,
\* one of them listed by both
C18_Witness ==
    /\ result # <<>>
    /\ arg.web = "index" /\ arg.failing = {}
    /\ Range(result[1]) = {gApiFoo, gGuideBar, gDocs}
    /\ gGuideBar \in LeavesOf(smChildA) \cap LeavesOf(smChildB)
    /\ smNested \in ChildrenOf(smIndex)

\* C20: a sitemap source that cannot be fetched or parsed adds nothing and
\* stops nothing: the result is exactly the in-scope URLs listed by the
\* sources that answer and parse, whether named by robots.txt, found at a
\* common path, listed by an index beside a failing child, or given by an
\* HTML sitemap page.
C20_FailureIsolated ==
    result # <<>> =>
        Range(result[1]) =
            {url \in UNION {LeavesOf(u) : u \in ReachableFrom(RootSitemaps)}
                     \cup HtmlSitemapLeaves : InScope(url)}

\* the sitemap of robots.txt and of a common path cannot be fetched, the
\* index has a malformed child: the URLs of the sibling child and of the HTML
\* sitemap page are in the result, the URL only the failed sitemap lists is not
C20_Witness ==
    /\ result # <<>>
    /\ arg.web = "sources" /\ arg.failing = {smMain}
    /\ smMain \in RootSitemaps
    /\ {smBroken, smChildB} \subseteq ChildrenOf(smIndex)
    /\ LeavesOf(smBroken) = {}
    /\ Range(result[1]) = {gGuideBar, gDocs}

(***************************************************************************)
(* Content processor: process_content applied to drawn documents.          *)
(***************************************************************************)
TitleTags == { <<>>, <<"A", "P", "I">>, <<"D", "o", "c", "s", " ", "|", " ", "E", "x", "a", "m", "p", "l", "e">>, <<" ", " ", "G", "u", "i", "d", "e", " ", " ">> }

H1Lists == { <<>>, << <<"D", "o", "c">> >>, << <<"A", "P", "I">>, <<"F", "o", "o", " ", "A", "P", "I">> >> }

MetaTitles == { <<>>, <<"M", "e", "t", "a", " ", "T", "i", "t", "l", "e">> }

ContentDocs ==
    LET plain == { Doc(has_main, title_tag, h1, meta_title, "", "", <<>>) :
                      has_main \in BOOLEAN, title_tag \in TitleTags,
                      h1 \in H1Lists, meta_title \in MetaTitles }
    IN  plain \cup { RaisingDoc(doc) : doc \in {d \in plain : d.h1 = <<>>} }

ContentUrls ==
    { G(<<"/", "g", "e", "t", "t", "i", "n", "g", "-", "s", "t", "a", "r", "t", "e", "d">>), G(<<"/">>), G(<<>>), G(<<"/", "a", "p", "i", "_", "r", "e", "f", "/", "v", "2", "/">>) }

ContentInit ==
    /\ arg \in [doc : ContentDocs, url : ContentUrls]
    /\ result = <<>>

\* process_content is applied to the drawn document and URL
ApplyProcessContent ==
    /\ result = <<>>
    /\ result' = << ProcessContent(arg.doc, arg.url) >>
    /\ UNCHANGED <<arg, tvars, gvars>>

InitContent == TraverserUnused /\ NoGenerator /\ ContentInit

NextContent == ApplyProcessContent

SpecContent == InitContent /\ [][NextContent]_vars

\* the chain of title candidates read off the document as it was fetched
TitleChain(doc, url) ==
    LET cleaned == CleanSuffixes(Strip(doc.title_tag), title_suffixes)
        path == UrlPath(url)
    IN  IF doc.title_tag # <<>> /\ Len(cleaned) > 3 THEN cleaned
        ELSE IF FirstLongH1(doc.h1) # <<>> THEN FirstLongH1(doc.h1)
        ELSE IF doc.meta_title # <<>> THEN Strip(doc.meta_title)
        ELSE IF path # <<>> /\ path # <<"/">> /\ UrlPathTitle(path) # <<>>
             THEN UrlPathTitle(path)
        ELSE <<"U", "n", "t", "i", "t", "l", "e", "d">>

\* C21: for every document that is processed without an exception, with or
\* without a main/article/.content container, the title of the record is the
\* first acceptable candidate of the chain <title>, <h1>, meta title, URL
\* path, "Untitled"
C21_TitleChain ==
    (result # <<>> /\ ~arg.doc.raises) =>
        result[1].title = TitleChain(arg.doc, arg.url)

\* the position in the store of the record of the k-th fetch of process_pages
\* (within the first run on an instance): the number of fetched bodies so far
StorePosition(log, k) == Cardinality({j \in 1..k : log[j][3] = "ok"})

\* C22: process_content never raises: a document on which a cleaning pass or
\* an extraction step fails gives the degraded record, title "Error
\* Processing Content" and empty main content; process_pages categorizes and
\* appends that record like any other and goes on with the next discovered
\* page, so every discovered page is still fetched.
C22_DegradedRecordKept ==
    LET log == PhaseLog("process")
        rules == ConfigGet(config, "category_rules", <<>>)
    IN  /\ proc.active => Len(log) = proc.i - 1
        /\ ProcessedAll => Len(log) = Len(discovered_pages)
        /\ \A k \in 1..Len(log) :
              (log[k][3] = "ok" /\ GenWeb[log[k][2]].raises) =>
                 LET rec == pages_data[StorePosition(log, k)]
                 IN  /\ rec.url = log[k][2]
                     /\ rec.title = <<"E", "r", "r", "o", "r", " ", "P", "r", "o", "c", "e", "s", "s", "i", "n", "g", " ", "C", "o", "n", "t", "e", "n", "t">>
                     /\ rec.content = ""
                     /\ rec.description = "Failed to process content"
                     /\ rec.category = CategorizePage(DegradedRecord(rec.url), rules)
                     /\ rec.source = discovered_pages[k].source

\* a finished run of three discovered pages: processing the first one failed,
\* its degraded record is in the store and in llms.txt, and the two pages
\* after it were fetched and recorded
C22_Witness ==
    LET log == PhaseLog("process")
    IN  /\ stage = "idle" /\ budget = 0
        /\ Len(log) = 3 /\ \A k \in 1..3 : log[k][3] = "ok"
        /\ log[1][2] = gDeep
        /\ Len(pages_data) = 3
        /\ pages_data[1].title = <<"E", "r", "r", "o", "r", " ", "P", "r", "o", "c", "e", "s", "s", "i", "n", "g", " ", "C", "o", "n", "t", "e", "n", "t">>
        /\ pages_data[2].title # <<"E", "r", "r", "o", "r", " ", "P", "r", "o", "c", "e", "s", "s", "i", "n", "g", " ", "C", "o", "n", "t", "e", "n", "t">>
        /\ gDeep \in ListedUrls("llms.txt")

(***************************************************************************)
(* The remote tool: handle_call_tool creates a generator, runs it once and *)
(* collects the generated files.                                           *)
(***************************************************************************)
\* the exceptions that can end run(): a missing configuration key, a failed
\* open() or write of an output file
Exceptions == {"KeyError", "OSError"}

ToolNames == {"generate_llms_txt", "unknown_tool"}

\* the url argument as the client sends it
ToolUrlArgs ==
    { <<>>, <<" ", " ">>,
      gSeed, gDeep,
      <<"@">> \o gStart,
      SubSeq(gSeed, 3, Len(gSeed)),
      <<"@">> \o SubSeq(gDocs, 3, Len(gDocs)) }

\* the url arguments that name an existing local path (os.path.exists)
LocalPaths == {}

HasScheme(url) == Len(url) >= 2 /\ url[1] \in {"http", "https", "file"} /\ url[2] = "://"

\* the leading "@" is dropped, a url without scheme becomes a file:// URI when
\* it is a local path and an https:// URL otherwise
NormalizeUrl(url) ==
    LET bare == IF url # <<>> /\ Head(url) = "@" THEN Tail(url) ELSE url
    IN  IF HasScheme(bare) THEN bare
        ELSE IF bare \in LocalPaths THEN <<"file", "://", "">> \o <<"/", "cwd", "/">> \o bare
        ELSE <<"https", "://">> \o bare

\* create_default_config() updated with the handler's values
ToolConfig(url) ==
    [keys |-> {"name", "description", "urls", "output_dir", "max_pages", "max_depth",
               "traversal_mode", "rate_limit", "user_agent"},
     name |-> "Website Documentation",
     description |-> <<"Documentation generated from", url>>,
     additional_info |-> "", urls |-> <<url>>, max_pages |-> DefaultMaxPages,
     category_rules |-> <<>>, include_patterns |-> <<>>, exclude_patterns |-> <<>>]

ToolResult(outcome, success, error, pages_processed, files_generated) ==
    [outcome |-> outcome, success |-> success, error |-> error,
     pages_processed |-> pages_processed, files_generated |-> files_generated]

\* raise ValueError(f"Unknown tool: {name}")
UnknownTool == ToolResult("raise", FALSE, "ValueError", 0, {})

\* the result returned for an empty url
UrlRequired == ToolResult("return", FALSE, "URL is required and cannot be empty", 0, {})

\* a mutation: the exception leaves the handler
ExceptBranchReraises(e) == ToolResult("raise", FALSE, e, 0, {})

\* except Exception as e: the result with success False and str(e)
ExceptBranch(e) == ToolResult("return", FALSE, e, 0, {})

\* the result returned after run(): the *.txt and *.json files of the
\* temporary directory
Collected(store, written) ==
    ToolResult("return", TRUE, "", Len(store), {f \in FileNames : written[f] # <<>>})

IsBlank(url) == \A i \in 1..Len(url) : url[i] = " "

ToolInit ==
    /\ arg \in [name : ToolNames, url : ToolUrlArgs]
    /\ result = <<>>

\* handle_call_tool up to the call of run(): the name and url checks, the
\* normalization, the temporary directory, the configuration, the generator
HandleCallTool ==
    /\ result = <<>> /\ config.keys = {}
    /\ \E tmp_ok \in BOOLEAN :
          IF arg.name # "generate_llms_txt" \/ IsBlank(arg.url) \/ ~tmp_ok
          THEN /\ result' = << IF arg.name # "generate_llms_txt" THEN UnknownTool
                               ELSE IF IsBlank(arg.url) THEN UrlRequired
                               ELSE ExceptBranch("OSError") >>
               /\ UNCHANGED gvars
          ELSE /\ config' = ToolConfig(NormalizeUrl(arg.url))
               /\ pages_data' = <<>>
               /\ budget' = 1
               /\ files' = NoFiles
               /\ UNCHANGED <<result, discovered_pages, stage, proc, getLog>>
    /\ UNCHANGED <<arg, tvars>>

\* open(output_file, "w") or a write fails in a rendering method or in
\* save_data: run() ends with the exception
OutputWriteFails ==
    /\ stage \in {"llms", "full", "save"}
    /\ stage' = "OSError"
    /\ UNCHANGED <<config, pages_data, discovered_pages, proc, files, getLog, budget>>
    /\ UNCHANGED <<tvars, fvars>>

\* handle_call_tool after run(): the files are collected, read and copied and
\* the result returned; an exception of run() or of the copy is caught
HandleCallToolReturn ==
    /\ result = <<>> /\ config.keys # {} /\ budget = 0
    /\ stage \in {"idle"} \cup Exceptions
    /\ \E copy_ok \in BOOLEAN :
          result' = << IF stage \in Exceptions THEN ExceptBranch(stage)
                       ELSE IF ~copy_ok THEN ExceptBranch("OSError")
                       ELSE Collected(pages_data, files) >>
    /\ UNCHANGED <<arg, tvars, gvars>>

InitTool == TraverserUnused /\ NoGenerator /\ ToolInit

\* run() is in progress
InRun == stage \notin {"idle"} \cup Exceptions

NextTool ==
    \/ HandleCallTool
    \/ Run
    \/ InRun /\ DiscoverPages
    \/ InRun /\ ProcessPages
    \/ InRun /\ ProcessPage
    \/ InRun /\ ProcessPagesReturn
    \/ InRun /\ GenerateLlmsTxt
    \/ InRun /\ GenerateLlmsFullTxt
    \/ InRun /\ SaveData
    \/ OutputWriteFails
    \/ HandleCallToolReturn

SpecTool == InitTool /\ [][NextTool]_vars

\* run() was called and returned without an exception
RunCompleted ==
    /\ config.keys # {} /\ budget = 0 /\ stage = "idle"
    /\ \A f \in {"llms.txt", "llms-full.txt", "documentation_data.json"} : files[f] # <<>>

\* C23: an invocation of generate_llms_txt never lets an exception out; when
\* run() ended with an exception the result has success false and the error
\* message; a result with success true is returned only after run() has
\* completed, and it counts the records of the store.
C23_FailureReported ==
    result # <<>> =>
        /\ arg.name = "generate_llms_txt" => result[1].outcome = "return"
        /\ stage \in Exceptions =>
              /\ ~result[1].success
              /\ result[1].error = stage
        /\ result[1].success =>
              /\ RunCompleted
              /\ result[1].pages_processed = Len(pages_data)
        /\ ~result[1].success => result[1].error # ""

\* a run that fetched pages and recorded one, then failed to write an output
\* file: the handler returned success false with the error
C23_Witness ==
    /\ result # <<>> /\ arg.name = "generate_llms_txt"
    /\ stage = "OSError"
    /\ pages_data # <<>>
    /\ files["llms.txt"] # <<>> /\ files["documentation_data.json"] = <<>>
    /\ result[1] = ExceptBranch("OSError")

(***************************************************************************)
(* Starting a run: through main() of the command line, which validates the *)
(* configuration, or by calling run() on a generator made from it.         *)
(***************************************************************************)
required_keys == <<"name", "description", "urls">>

\* validate_config(config): "valid" for the return of True, or the message
\* of the ValueError
ValidateConfig(cfg) ==
    LET missing == {i \in 1..Len(required_keys) : required_keys[i] \notin cfg.keys}
    IN  IF missing # {}
        THEN "Missing required configuration key: "
                \o required_keys[CHOOSE i \in missing : \A j \in missing : i <= j]
        ELSE IF Len(cfg.urls) = 0 THEN "urls must be a non-empty list"
        ELSE "valid"

StartConfig(keys, urls, max_pages) ==
    [keys |-> keys \cup {"max_pages"}, name |-> "Example Docs",
     description |-> "About the docs", additional_info |-> "", urls |-> urls,
     max_pages |-> max_pages, category_rules |-> <<>>, include_patterns |-> <<>>,
     exclude_patterns |-> <<>>]

StartConfigs ==
    { StartConfig(keys, urls, max_pages) :
         keys \in { {"name", "description", "urls"}, {"description", "urls"},
                    {"name", "urls"}, {"name", "description"} },
         urls \in { <<gStart>>, <<gSeed>>, <<>> },
         max_pages \in 1..2 }

EntryPoints == {"main", "run"}

StartInit ==
    /\ arg \in [entry : EntryPoints, config : StartConfigs]
    /\ result = <<>>

\* main(): the configuration is validated, then the generator is created
Main ==
    /\ arg.entry = "main" /\ result = <<>> /\ config.keys = {}
    /\ IF ValidateConfig(arg.config) # "valid"
       THEN /\ result' = << [exit |-> 1, error |-> ValidateConfig(arg.config)] >>
            /\ UNCHANGED gvars
       ELSE /\ config' = arg.config
            /\ pages_data' = <<>>
            /\ budget' = 1
            /\ files' = NoFiles
            /\ UNCHANGED <<result, discovered_pages, stage, proc, getLog>>
    /\ UNCHANGED <<arg, tvars>>

\* main() after run(): the files are moved and 0 is returned; an exception
\* of run() or of the move gives 1
MainReturn ==
    /\ arg.entry = "main" /\ result = <<>> /\ config.keys # {} /\ budget = 0
    /\ stage \in {"idle"} \cup Exceptions
    /\ \E move_ok \in BOOLEAN :
          result' = << IF stage \in Exceptions THEN [exit |-> 1, error |-> stage]
                       ELSE IF ~move_ok THEN [exit |-> 1, error |-> "OSError"]
                       ELSE [exit |-> 0, error |-> ""] >>
    /\ UNCHANGED <<arg, tvars, gvars>>

\* LLMsTxtGenerator(config): a caller of the package makes the generator
CreateGenerator ==
    /\ arg.entry = "run" /\ result = <<>> /\ config.keys = {}
    /\ config' = arg.config
    /\ pages_data' = <<>>
    /\ budget' = 1
    /\ files' = NoFiles
    /\ UNCHANGED <<discovered_pages, stage, proc, getLog>>
    /\ UNCHANGED <<tvars, fvars>>

\* run() is over for the caller of the package: it returned, or its
\* exception reaches the caller
RunReturn ==
    /\ arg.entry = "run" /\ result = <<>> /\ config.keys # {} /\ budget = 0
    /\ stage \in {"idle"} \cup Exceptions
    /\ result' = << IF stage \in Exceptions THEN [exit |-> 1, error |-> stage]
                    ELSE [exit |-> 0, error |-> ""] >>
    /\ UNCHANGED <<arg, tvars, gvars>>

InitStart == TraverserUnused /\ NoGenerator /\ StartInit

NextStart ==
    \/ Main
    \/ CreateGenerator
    \/ Run
    \/ InRun /\ DiscoverPages
    \/ InRun /\ ProcessPages
    \/ InRun /\ ProcessPage
    \/ InRun /\ ProcessPagesReturn
    \/ InRun /\ GenerateLlmsTxt
    \/ InRun /\ GenerateLlmsFullTxt
    \/ InRun /\ SaveData
    \/ MainReturn
    \/ RunReturn

SpecStart == InitStart /\ [][NextStart]_vars

\* C24: a run started with a configuration that lacks a required key or has
\* an empty seed list issues no HTTP request, and it ends with an error
C24_FailsBeforeFetch ==
    ValidateConfig(arg.config) # "valid" =>
        /\ getLog = <<>>
        /\ result # <<>> => result[1].exit = 1

(***************************************************************************)
(* get_page_content applied to drawn URLs and GET results.                 *)
(***************************************************************************)
\* what self.session.get(url, timeout=30) does: it raises, or it returns a
\* response with a status code and a body
GetResults ==
    { [raised |-> e, status |-> 0, body |-> FALSE] : e \in {"ConnectionError", "Timeout"} }
    \cup { [raised |-> "", status |-> s, body |-> b] :
              s \in {200, 201, 403, 404, 500}, b \in BOOLEAN }

\* response.raise_for_status() raises HTTPError for a 4xx or 5xx status
OutcomeOf(get) ==
    IF get.raised # "" \/ get.status >= 400 THEN "error"
    ELSE IF get.body THEN "ok" ELSE "empty"

\* Python's None
PyNone == [none |-> TRUE]

FetchInit ==
    /\ arg \in [url : GenUrls, get : GetResults]
    /\ result = <<>>

\* get_page_content is applied to the drawn URL
ApplyGetPageContent ==
    /\ result = <<>>
    /\ result' = << GetPageContent(arg.url, OutcomeOf(arg.get)) >>
    /\ UNCHANGED <<arg, tvars, gvars>>

InitFetch == TraverserUnused /\ NoGenerator /\ FetchInit

NextFetch == ApplyGetPageContent

SpecFetch == InitFetch /\ [][NextFetch]_vars

\* C25: get_page_content returns the response text when the GET succeeds, and
\* returns None, with no exception let out, when the GET raises
C25_TextOrNone ==
    result # <<>> =>
        CASE OutcomeOf(arg.get) = "ok" -> result[1] = GenWeb[arg.url]
          [] OutcomeOf(arg.get) = "empty" -> result[1] = EmptyDoc
          [] OTHER -> result[1] = PyNone

(***************************************************************************)
(* The categorizer of a generator made from the default configuration.     *)
(***************************************************************************)
\* create_default_config()
DefaultConfig ==
    [keys |-> {"name", "description", "urls", "output_dir", "max_pages", "max_depth",
               "traversal_mode", "rate_limit", "user_agent"},
     name |-> "Website Documentation",
     description |-> "Documentation generated from website",
     additional_info |-> "", urls |-> <<gHome>>, max_pages |-> DefaultMaxPages,
     category_rules |-> <<>>, include_patterns |-> <<>>, exclude_patterns |-> <<>>]

DefaultPageUrls ==
    CategorizedUrls \cup { G(<<"/", "d", "o", "c", "s", "/", "a", "p", "i", "/", "r", "e", "f", "e", "r", "e", "n", "c", "e">>), G(<<"/", "r", "a", "n", "d", "o", "m", "-", "p", "a", "g", "e">>),
                           G(<<"/", "a", "p", "i">>), G(<<"/", "v", "1", "/", "a", "p", "i", "/">>) }

DefaultPageTitles ==
    CategorizedTitles \cup { <<"A", "P", "I", " ", "R", "e", "f", "e", "r", "e", "n", "c", "e">>, <<"A", "P", "I", " ", "D", "o", "c", "u", "m", "e", "n", "t", "a", "t", "i", "o", "n">>, <<"R", "a", "n", "d", "o", "m", " ", "P", "a", "g", "e">> }

DefaultCategorizeInit ==
    /\ arg \in [url : DefaultPageUrls, title : DefaultPageTitles]
    /\ result = <<>>

\* _categorize_page is applied to the drawn page by the generator
CategorizeWithOwnConfig ==
    /\ result = <<>>
    /\ result' = << CategorizePage([url |-> arg.url, title |-> arg.title],
                                   ConfigGet(config, "category_rules", <<>>)) >>
    /\ UNCHANGED <<arg, tvars, gvars>>

InitDefault ==
    TraverserUnused /\ GeneratorInit({DefaultConfig}, 0) /\ DefaultCategorizeInit

NextDefault == CategorizeWithOwnConfig

SpecDefault == InitDefault /\ [][NextDefault]_vars

\* C26: with the default configuration a page whose URL contains "/api/" and
\* a page whose title contains "API" are categorized "API", a page with
\* neither is categorized "Other"
C26_DefaultApiCategory ==
    result # <<>> =>
        IF Contains(<<"/", "a", "p", "i", "/">>, arg.url) \/ Contains(<<"A", "P", "I">>, arg.title)
        THEN result[1] = <<"A", "P", "I">>
        ELSE result[1] = Other

(***************************************************************************)
(* Claims about fetch failures in the traversal engine.                    *)
(***************************************************************************)
\* the URLs of the running call whose fetch is over and gave no page data
FailedUrls(t) ==
    (Range(fetchLog[t]) \ fetchOk[t]) \ (IF pc[t] = "fetch" THEN {cur[t][1]} ELSE {})

PageUrls(ps) == {ps[i].url : i \in 1..Len(ps)}

C27_State ==
    \A t \in tasks :
        /\ \A url \in FailedUrls(t) :
              /\ url \notin PageUrls(pages[t])
              /\ url \in visited_urls
              /\ Count(fetchLog[t], url) = 1
        /\ Len(pages[t]) = Cardinality(fetchOk[t])
        /\ pc[t] = "done" =>
              queue[t] = <<>> \/ Len(returned[t]) = call[t].max_pages

C27_Step ==
    \A t \in tasks :
        /\ (pc[t] = "fetch" /\ pc'[t] # "fetch" /\ cur[t][1] \notin fetchOk'[t]) =>
              /\ pc'[t] = "sleep"
              /\ queue'[t] = queue[t] /\ pages'[t] = pages[t]
              /\ visited_urls' = visited_urls
        /\ (pc[t] # "done" /\ pc'[t] = "done") =>
              /\ pc[t] = "loop"
              /\ queue[t] = <<>> \/ Len(pages[t]) >= call[t].max_pages

\* C27: a failed fetch never aborts the traversal: the URL adds no page and
\* does not count toward max_pages, it stays in the visited set and is not
\* fetched again, no links are enqueued for it, and the loop goes on until
\* the queue is empty or max_pages is reached.
C27_FailureIsLocal == [](C27_State) /\ [][C27_Step]_vars

\* a finished run in which the second fetch failed and a later one succeeded
C27_Witness ==
    \E t \in tasks :
        /\ pc[t] = "done" /\ Len(fetchLog[t]) >= 3
        /\ fetchLog[t][1] \in fetchOk[t]
        /\ fetchLog[t][2] \in FailedUrls(t)
        /\ fetchLog[t][3] \in fetchOk[t]
        /\ Len(returned[t]) = 2

(***************************************************************************)
(* Two coroutines calling traverse_website on one traverser instance,      *)
(* interleaved at the awaits of the fetch and of the sleep.                *)
(***************************************************************************)
InitConc == TraverserInit(Tasks) /\ site = "cyclic" /\ NoGenerator /\ NoFunction

\* each coroutine makes one call, in docs or in research mode
NextConc ==
    \/ \E t \in tasks :
          pc[t] = "idle" /\ TraverseWebsite(t) /\ call'[t].mode \in {"docs", "research"}
    \/ \E t \in tasks : LoopPop(t)
    \/ \E t \in tasks : LoopExit(t)
    \/ \E t \in tasks : FetchPageOk(t)
    \/ \E t \in tasks : FetchPageFail(t)
    \/ \E t \in tasks : Sleep(t)

SpecConc == InitConc /\ [][NextConc]_vars

\* the fetches started by all coroutines in their running calls
RECURSIVE AllFetches(_)
AllFetches(ts) ==
    IF ts = {} THEN <<>>
    ELSE LET t == CHOOSE x \in ts : \A y \in ts : x <= y
         IN  fetchLog[t] \o AllFetches(ts \ {t})

C28_State ==
    /\ NoDuplicates(AllFetches(tasks))
    /\ \A t, u \in tasks :
          (t # u /\ pc[t] = "fetch" /\ pc[u] = "fetch") => cur[t][1] # cur[u][1]

\* the step that starts a fetch tests the set and inserts the URL at once
C28_Step ==
    \A t \in tasks :
        (pc[t] # "fetch" /\ pc'[t] = "fetch") =>
            /\ cur'[t][1] \notin visited_urls
            /\ cur'[t][1] \in visited_urls'

\* C28: when several traversal coroutines run on one traverser instance and
\* interleave at the fetch and at the sleep, no URL is fetched by two of them
\* and none is fetched twice: the membership test and the insertion into the
\* visited set are one step with no suspension point between them.
C28_NoDoubleFetch == [](C28_State) /\ [][C28_Step]_vars

\* two coroutines in flight: the first fetched the seed, which links to
\* /docs/a and /api/b, the second fetched /docs/a meanwhile, and the first
\* skipped /docs/a and is fetching /api/b
C28_Witness ==
    /\ tasks = Tasks
    /\ call[1].base = uRoot /\ call[1].mode = "docs" /\ call[2].base = uDocsA
    /\ pc[1] = "fetch" /\ pc[2] \in {"fetch", "sleep"}
    /\ fetchLog[1] = <<uRoot, uApiB>>
    /\ fetchLog[2] = <<uDocsA>>

(***************************************************************************)
(* Termination of a traversal: the event loop resumes a coroutine that can *)
(* run, every fetch returns page data or fails, every sleep ends.          *)
(***************************************************************************)
\* a step of a running call: at most one of them is enabled for a coroutine
RunStep(t) ==
    LoopPop(t) \/ LoopExit(t) \/ FetchPageOk(t) \/ FetchPageFail(t) \/ Sleep(t)

InitLive == Init /\ site = "cyclic"

SpecLive == InitLive /\ [][Next]_vars /\ WF_vars(\E t \in tasks : RunStep(t))

\* the loop is left for the return only on an empty queue or a full result
C29_Step ==
    \A t \in tasks :
        (pc[t] # "done" /\ pc'[t] = "done") =>
            /\ pc[t] = "loop"
            /\ queue[t] = <<>> \/ Len(pages[t]) = call[t].max_pages
            /\ returned'[t] = pages[t]

\* C29: every traversal run over a finite site terminates, whatever the link
\* graph (cycles, self-links), and only because the queue became empty or
\* the result count reached max_pages.
C29_Terminates ==
    /\ \A t \in Tasks : (pc[t] = "loop") ~> (pc[t] = "done")
    /\ [][C29_Step]_vars

\* a finished run over the cyclic site that went round the cycle seed ->
\* /docs/a -> seed and ended on an empty queue with room left in the result
C29_Witness ==
    \E t \in tasks :
        /\ pc[t] = "done" /\ site = "cyclic" /\ call[t].base = uRoot
        /\ queue[t] = <<>> /\ Len(returned[t]) < call[t].max_pages
        /\ uDocsA \in fetchOk[t] /\ uRoot \in fetchOk[t]
        /\ call[t].max_depth = MaxDepthBound

(***************************************************************************)
(* Sitemap Resolver: the nesting of its calls.                             *)
(***************************************************************************)
\* the chains of nested calls of _extract_urls_from_sitemap_url below one
\* call: _parse_xml_sitemap calls it for every <sitemap><loc> of an index,
\* whatever was resolved before; nothing but the interpreter's recursion
\* limit, whose RecursionError the except branch turns into [], ends a chain
RECURSIVE NestedCalls(_, _, _, _)
NestedCalls(web, failing, chain, depth) ==
    LET got == SitemapFetch(web, failing, chain[Len(chain)])
        children == IF depth <= RecursionLimit /\ got # <<>>
                       /\ ReadAsXml(got[1]) /\ got[1].kind = "index"
                    THEN got[1].items ELSE <<>>
    IN  {chain} \cup UNION {NestedCalls(web, failing, Append(chain, children[k]), depth + 1) :
                               k \in 1..Len(children)}

\* the chains of nested calls of one run of extract_urls_from_sitemap
ResolutionChains ==
    UNION {NestedCalls(SitemapWebs[arg.web], arg.failing, <<root>>, 1) : root \in RootSitemaps}

====
